---- MODULE Spec2Model ----
(***************************************************************************)
(* Verification model of sandbox-runtime-rs: the domain filter, the HTTP   *)
(* and SOCKS5 proxies, the Seatbelt profile compiler, the bubblewrap jail  *)
(* compiler and the sandbox manager.                                       *)
(*                                                                         *)
(* Strings are sequences of one-character strings, so that case folding,   *)
(* prefixes and suffixes are computed and not assumed.  Filesystem paths   *)
(* are sequences of path components.                                       *)
(***************************************************************************)
EXTENDS Integers, Sequences, FiniteSets, TLC

VARIABLES
    \* matches_domain_pattern applied to one (hostname, pattern) pair
    mHost, mPat, mDone, mResult,
    \* DomainFilter::check applied to one (filter, hostname, port) triple
    fFilter, fHost, fPort, fDecision,
    \* the build target (cfg(target_os)): "macos" or "linux"
    platform,
    \* ManagerState behind SandboxManager::state
    state,
    \* the HttpProxy / Socks5Proxy objects and their accept-loop tasks, by slot
    proxies,
    \* files on disk: the temporary Seatbelt profile and the bridge socket files
    profileFile, sockFiles,
    \* the calls in flight on the manager: initialize, wrap_with_sandbox, reset
    ini, wrapc, rst,
    \* history: outcome of the last initialize, last accepted update_config,
    \* and whether reset() has returned with no initialize since
    lastInit, lastUpdate, afterReset,
    \* the client connection followed through a proxy, and its current request
    req,
    \* generate_filesystem_rules applied to one filesystem policy
    pConfig, pProfile, pDone,
    \* one call of generate_bwrap_command: the file system, the policy, the
    \* bind mounts and the argv
    jWorld, jConfig, jMounts, jArgv, jDone,
    \* SandboxViolationStore: the stored events, total_count, the number of
    \* listeners, the line the listeners last heard, and where each thread
    \* that calls add_violation stands
    vViolations, vTotal, vListeners, vHeard, vAdd,
    \* SandboxRuntimeConfig::validate applied to one policy: the policy, the
    \* last result and the number of calls made
    valConfig, valResult, valCalls,
    \* the control fd reader task of main and the last input it or a direct
    \* update_config call consumed
    ctl,
    \* one SOCKS5 connection inside handle_client: where the handler stands,
    \* the request read, the bytes written to the client, the target
    sk,
    \* one CONNECT request inside the HTTP proxy: where its task stands, the
    \* MITM socket it connected to, what it wrote there and what it read
    mt,
    \* violation monitoring on macOS: whether the manager is initialized, the
    \* commands it wrapped, the trace lines the kernel emitted, and the one
    \* LogMonitor with its helper process, reader task and channel
    lgManager, lgWrapped, lgLines, lgMon,
    \* one wrap_with_sandbox call after its snapshot: the inputs, and the
    \* command line given to the sandboxee's shell
    weIn, weOut, weDone,
    \* one initialize call on a host: the host, the policy, the result of the
    \* call and the number of proxies it started
    hHost, hConfig, hResult, hProxies,
    \* the log tag round trip: the number behind SESSION_SUFFIX, the command,
    \* the tag made of it and the command decoded from the tag
    tgSession, tgCommand, tgTag, tgDecoded,
    \* one glob, the regex made of it, and a path matched against the regex
    gbPattern, gbRegex, gbPath, gbResult,
    \* concurrent add_violation calls: the store, its counter, the number of
    \* listeners, the position of each call, and what each listener heard
    nViolations, nTotal, nListeners, nCall, nHeard,
    \* the manager's lock: the platform, the operation holding the write
    \* guard, the position of each operation, and the bridges held
    lkPlatform, lkWriter, lkPc, lkBridges,
    \* one CONNECT tunnel of the HTTP proxy
    tn,
    \* the accept loop of one proxy
    al,
    \* the control fd of main: its reader task, the lines written and read,
    \* the shutdown signal and the policies the task applied
    rd,
    \* the wrap calls of one process on macOS: the files on disk, where each
    \* call stands, and what each executed command read as its profile
    wf,
    \* the locks of the violation store, the call stack of each thread that
    \* uses the store, the number of listeners and of calls made
    rs

varsMatch == <<mHost, mPat, mDone, mResult>>
varsFilter == <<fFilter, fHost, fPort, fDecision>>
varsMgr ==
    <<platform, state, proxies, profileFile, sockFiles, ini, wrapc, rst,
      lastInit, lastUpdate, afterReset>>
varsReq == <<req>>
varsProfile == <<pConfig, pProfile, pDone>>
varsJail == <<jWorld, jConfig, jMounts, jArgv, jDone>>
varsStore == <<vViolations, vTotal, vListeners, vHeard, vAdd>>
varsValidate == <<valConfig, valResult, valCalls>>
varsCtl == <<ctl>>
varsSocks == <<sk>>
varsMitm == <<mt>>
varsMon == <<lgManager, lgWrapped, lgLines, lgMon>>
varsWrapEnv == <<weIn, weOut, weDone>>
varsHost == <<hHost, hConfig, hResult, hProxies>>
varsTag == <<tgSession, tgCommand, tgTag, tgDecoded>>
varsGlob == <<gbPattern, gbRegex, gbPath, gbResult>>
varsNotify == <<nViolations, nTotal, nListeners, nCall, nHeard>>
varsLock == <<lkPlatform, lkWriter, lkPc, lkBridges>>
varsTunnel == <<tn>>
varsAccept == <<al>>
varsReader == <<rd>>
varsWrapFile == <<wf>>
varsReenter == <<rs>>
vars == <<varsMatch, varsFilter, varsMgr, varsReq, varsProfile, varsJail, varsStore, varsValidate, varsCtl, varsSocks, varsMitm, varsMon, varsWrapEnv, varsHost, varsTag, varsGlob, varsNotify, varsLock, varsTunnel, varsAccept, varsReader, varsWrapFile, varsReenter>>

----------------------------------------------------------------------------
(* Bounds *)

\* longest hostname / pattern drawn for matches_domain_pattern
MaxStrLen == 3
\* longest allow / deny / intercept list drawn for DomainFilter::check
MaxListLen == 2

----------------------------------------------------------------------------
(* Strings *)

\* all sequences over alphabet A of length 0..n
Strs(A, n) == UNION {[1..k -> A] : k \in 0..n}

\* char::to_lowercase restricted to the ASCII letters of the model
LowerChar(c) ==
    CASE c = "A" -> "a"
      [] c = "B" -> "b"
      [] c = "C" -> "c"
      [] c = "L" -> "l"
      [] c = "M" -> "m"
      [] c = "S" -> "s"
      [] c = "W" -> "w"
      [] c = "Z" -> "z"
      [] OTHER -> c

\* str::to_lowercase
to_lowercase(s) == [i \in 1..Len(s) |-> LowerChar(s[i])]

\* Option<T>: None is the empty sequence, Some(x) the one-element sequence
None == <<>>
Some(x) == <<x>>
IsNone(o) == o = <<>>
IsSome(o) == o # <<>>
Unwrap(o) == o[1]

\* str::starts_with
starts_with(s, p) == Len(p) <= Len(s) /\ SubSeq(s, 1, Len(p)) = p

\* str::ends_with
ends_with(s, p) == Len(p) <= Len(s) /\ SubSeq(s, Len(s) - Len(p) + 1, Len(s)) = p

----------------------------------------------------------------------------
(* config/schema.rs: matches_domain_pattern *)

\* Mutant: the wildcard branch compares with the base domain itself, without
\* the leading dot, so the bare base matches *.base.
matches_domain_pattern_nodot(hostname, pattern) ==
    LET hostname_lower == to_lowercase(hostname)
        pattern_lower == to_lowercase(pattern)
    IN  IF starts_with(pattern_lower, <<"*", ".">>)
        THEN ends_with(hostname_lower, SubSeq(pattern_lower, 3, Len(pattern_lower)))
        ELSE hostname_lower = pattern_lower

matches_domain_pattern(hostname, pattern) ==
    LET hostname_lower == to_lowercase(hostname)
        pattern_lower == to_lowercase(pattern)
    IN  IF starts_with(pattern_lower, <<"*", ".">>)
        THEN LET base_domain == SubSeq(pattern_lower, 3, Len(pattern_lower))
             IN  ends_with(hostname_lower, <<".">> \o base_domain)
        ELSE hostname_lower = pattern_lower

----------------------------------------------------------------------------
(* proxy/filter.rs: DomainFilter *)

Allow == "Allow"
Deny == "Deny"
Mitm == "Mitm"

\* `for pattern in list { if matches_domain_pattern(hostname, pattern) { return .. } }`:
\* the index of the first matching pattern, 0 when the loop falls through
RECURSIVE first_match(_, _, _)
first_match(list, hostname, i) ==
    IF i > Len(list) THEN 0
    ELSE IF matches_domain_pattern(hostname, list[i]) THEN i
    ELSE first_match(list, hostname, i + 1)

\* Mutant: the MITM list is consulted before the deny list.
check_mitm_first(filter, hostname, port) ==
    IF first_match(filter.mitm_domains, hostname, 1) # 0 THEN Mitm
    ELSE IF first_match(filter.denied_domains, hostname, 1) # 0 THEN Deny
    ELSE IF filter.allowed_domains # <<>>
         THEN IF first_match(filter.allowed_domains, hostname, 1) # 0 THEN Allow ELSE Deny
    ELSE Allow

\* DomainFilter::check
check(filter, hostname, port) ==
    IF first_match(filter.denied_domains, hostname, 1) # 0 THEN Deny
    ELSE IF first_match(filter.mitm_domains, hostname, 1) # 0 THEN Mitm
    ELSE IF filter.allowed_domains # <<>>
         THEN IF first_match(filter.allowed_domains, hostname, 1) # 0 THEN Allow ELSE Deny
    ELSE Allow

\* DomainFilter::from_config
from_config(network) ==
    [allowed_domains |-> network.allowed_domains,
     denied_domains |-> network.denied_domains,
     mitm_domains |-> IF IsNone(network.mitm_proxy) THEN <<>>
                      ELSE Unwrap(network.mitm_proxy).domains]

----------------------------------------------------------------------------
(* Specification SpecMatch: matches_domain_pattern on every bounded pair *)

HostAlphabet == {"a", "A", "b", "."}
PatAlphabet == {"a", "A", ".", "*"}

MatchHosts == Strs(HostAlphabet, MaxStrLen)
MatchPatterns == Strs(PatAlphabet, MaxStrLen)

IdleMatch == mHost = <<>> /\ mPat = <<>> /\ mDone = TRUE /\ mResult = FALSE

InitMatchInputs ==
    /\ mHost \in MatchHosts
    /\ mPat \in MatchPatterns
    /\ mDone = FALSE
    /\ mResult = FALSE

\* one call matches_domain_pattern(mHost, mPat)
Match ==
    /\ ~mDone
    /\ mDone' = TRUE
    /\ mResult' = matches_domain_pattern(mHost, mPat)
    /\ UNCHANGED <<mHost, mPat>>

----------------------------------------------------------------------------
(* Specification SpecFilter: DomainFilter::check on every bounded triple *)

\* patterns and hostnames the filters are built from
FilterPatterns == {<<"a">>, <<"*", ".", "a">>, <<"b", ".", "a">>}
FilterHosts == {<<"a">>, <<"b", ".", "a">>, <<"B", ".", "A">>, <<"c", ".", "a">>, <<"b">>}
FilterPorts == {80, 443}
PatternLists == UNION {[1..k -> FilterPatterns] : k \in 0..MaxListLen}
Filters ==
    [allowed_domains : PatternLists, denied_domains : PatternLists,
     mitm_domains : PatternLists]

IdleFilter ==
    /\ fFilter = [allowed_domains |-> <<>>, denied_domains |-> <<>>, mitm_domains |-> <<>>]
    /\ fHost = <<>>
    /\ fPort = 0
    /\ fDecision = "idle"

InitFilterInputs ==
    /\ fFilter \in Filters
    /\ fHost \in FilterHosts
    /\ fPort \in FilterPorts
    /\ fDecision = "none"

\* one call filter.check(fHost, fPort)
Check ==
    /\ fDecision = "none"
    /\ fDecision' = check(fFilter, fHost, fPort)
    /\ UNCHANGED <<fFilter, fHost, fPort>>

----------------------------------------------------------------------------
(* config/schema.rs: SandboxRuntimeConfig::validate *)

\* the ASCII alphanumerics that occur in the model's patterns
AlnumChars == {"a", "b", "c", "x", "z", "A", "B", "C", "Z", "0", "9"}

\* a "*.suffix" pattern whose suffix has no dot and at most this many
\* characters is rejected as too broad
TooBroadLen == 4

\* str::contains(char)
contains(s, c) == \E i \in 1..Len(s) : s[i] = c

\* Mutant: the too-broad test is `suffix.len() < 4`.
validate_domain_pattern_short_suffix(pattern) ==
    IF pattern = <<>> THEN FALSE
    ELSE IF pattern = <<"*">> THEN FALSE
    ELSE IF /\ starts_with(pattern, <<"*", ".">>)
            /\ ~contains(SubSeq(pattern, 3, Len(pattern)), ".")
            /\ Len(pattern) - 2 < TooBroadLen
         THEN FALSE
    ELSE IF contains(pattern, ":") THEN FALSE
    ELSE LET check_part == IF starts_with(pattern, <<"*", ".">>)
                           THEN SubSeq(pattern, 3, Len(pattern))
                           ELSE pattern
         IN  \A i \in 1..Len(check_part) :
                check_part[i] \in AlnumChars \cup {".", "-", "_"}

\* validate_domain_pattern: TRUE for Ok(()), FALSE for InvalidDomainPattern
validate_domain_pattern(pattern) ==
    IF pattern = <<>> THEN FALSE
    ELSE IF pattern = <<"*">> THEN FALSE
    ELSE IF /\ starts_with(pattern, <<"*", ".">>)
            /\ ~contains(SubSeq(pattern, 3, Len(pattern)), ".")
            /\ Len(pattern) - 2 <= TooBroadLen
         THEN FALSE
    ELSE IF contains(pattern, ":") THEN FALSE
    ELSE LET check_part == IF starts_with(pattern, <<"*", ".">>)
                           THEN SubSeq(pattern, 3, Len(pattern))
                           ELSE pattern
         IN  \A i \in 1..Len(check_part) :
                check_part[i] \in AlnumChars \cup {".", "-", "_"}

\* SandboxRuntimeConfig::validate: TRUE for Ok(())
validate(config) ==
    /\ \A i \in 1..Len(config.network.allowed_domains) :
          validate_domain_pattern(config.network.allowed_domains[i])
    /\ \A i \in 1..Len(config.network.denied_domains) :
          validate_domain_pattern(config.network.denied_domains[i])
    /\ IsSome(config.network.mitm_proxy) =>
          \A i \in 1..Len(Unwrap(config.network.mitm_proxy).domains) :
             validate_domain_pattern(Unwrap(config.network.mitm_proxy).domains[i])

\* NetworkConfig::default()
NetDefault == [allowed_domains |-> <<>>, denied_domains |-> <<>>, mitm_proxy |-> None]

HostA == <<"a">>
HostB == <<"b">>
MitmSock == "mitm.sock"

\* the policies handed to initialize and update_config
CfgOpen == [network |-> NetDefault]
CfgDenyB == [network |-> [NetDefault EXCEPT !.denied_domains = <<HostB>>]]
CfgMitmA ==
    [network |-> [allowed_domains |-> <<HostA>>, denied_domains |-> <<>>,
                  mitm_proxy |-> Some([socket_path |-> MitmSock, domains |-> <<HostA>>])]]
\* "*.a" is rejected by validate as too broad
CfgBad == [network |-> [NetDefault EXCEPT !.allowed_domains = <<<<"*", ".", "a">>>>]]
Configs == {CfgOpen, CfgDenyB, CfgMitmA, CfgBad}

----------------------------------------------------------------------------
(* proxy/http.rs, proxy/socks5.rs: the proxy objects and their accept loops *)

\* proxy objects created in one run (each binds a port no earlier one had)
NumProxySlots == 4
ProxySlots == 1..NumProxySlots

\* a proxy that has not been created yet
Unused ==
    [kind |-> "unused", port |-> 0, filter |-> from_config(NetDefault),
     mitm_socket_path |-> None, loop |-> "none"]

\* a proxy whose accept loop has ended and whose listener is closed
Gone ==
    [kind |-> "gone", port |-> 0, filter |-> from_config(NetDefault),
     mitm_socket_path |-> None, loop |-> "exited"]

FreeSlots == {i \in ProxySlots : proxies[i].kind = "unused"}
LowestFree(S) == CHOOSE i \in S : \A j \in S : i <= j

\* HttpProxy::new followed by HttpProxy::start: the listener is bound to an
\* OS-assigned free port (the slot number stands for it: no two live
\* listeners share one) and the accept loop is spawned with the filter
\* built at this moment
HttpProxy_new(filter, mitm_socket_path, slot) ==
    [kind |-> "http", port |-> slot, filter |-> filter,
     mitm_socket_path |-> mitm_socket_path, loop |-> "running"]

\* Socks5Proxy::new followed by Socks5Proxy::start
Socks5Proxy_new(filter, slot) ==
    [kind |-> "socks", port |-> slot, filter |-> filter,
     mitm_socket_path |-> None, loop |-> "running"]

\* HttpProxy::stop / Socks5Proxy::stop, and the drop of the proxy object: the
\* one-shot sender fires or is dropped, which the accept loop's select
\* observes at its next poll
stop(p) == IF p.loop = "running" THEN [p EXCEPT !.loop = "signalled"] ELSE p

\* the proxies table after stopping / dropping the proxies held in Options a, b
StopHeld(tbl, a, b) ==
    [i \in ProxySlots |->
        IF (IsSome(a) /\ Unwrap(a) = i) \/ (IsSome(b) /\ Unwrap(b) = i)
        THEN stop(tbl[i]) ELSE tbl[i]]

\* the accept loop's select takes the shutdown branch: the task ends and the
\* listener is closed
AcceptLoopExit(i) ==
    /\ proxies[i].loop = "signalled"
    /\ proxies' = [proxies EXCEPT ![i] = Gone]
    /\ UNCHANGED <<platform, state, profileFile, sockFiles, ini, wrapc, rst,
                   lastInit, lastUpdate, afterReset>>

----------------------------------------------------------------------------
(* sandbox/linux/bridge.rs *)

\* the random suffixes generate_socket_path can draw
NumSuffixes == 2
Suffixes == 1..NumSuffixes

\* most bridges the manager's Vec<SocatBridge> may hold
MaxBridges == 4

\* generate_socket_path(prefix), with the random suffix drawn by the caller
generate_socket_path(prefix, suffix) == <<prefix, suffix>>

\* SocatBridge::unix_to_tcp: the bridge object (the socat child has been
\* spawned; it binds its socket on its own, see SocatBind)
SocatBridge(socket_path, tcp_port) ==
    [socket_path |-> socket_path, tcp_port |-> tcp_port, alive |-> TRUE,
     listening |-> FALSE]

\* the paths of the bridges of a Vec<SocatBridge>
BridgePaths(bs) == {bs[i].socket_path : i \in 1..Len(bs)}

\* the suffixes that occur in a path of the given prefix somewhere (a bridge,
\* a socket file, the published paths, the snapshot of a wrap call)
UsedSuffixes(prefix) ==
    {s \in Suffixes :
        LET path == generate_socket_path(prefix, s)
        IN  \/ path \in BridgePaths(state.bridges)
            \/ path \in sockFiles
            \/ Some(path) \in {state.http_socket_path, state.socks_socket_path,
                                wrapc.http_socket, wrapc.socks_socket}}

\* the draws of the random suffix that differ in effect: each value in use
\* (a collision) and one value not in use (values are only ever compared for
\* equality, so one unused value stands for them all)
Draws(prefix) ==
    LET unused == Suffixes \ UsedSuffixes(prefix)
    IN  UsedSuffixes(prefix) \cup
          (IF unused = {} THEN {} ELSE {CHOOSE s \in unused : \A t \in unused : s <= t})

\* the socat child executes UNIX-LISTEN: it creates the socket file, or exits
\* when the address is already in use
SocatBind(i) ==
    /\ i \in 1..Len(state.bridges)
    /\ state.bridges[i].alive
    /\ ~state.bridges[i].listening
    /\ IF state.bridges[i].socket_path \in sockFiles
       THEN /\ state' = [state EXCEPT !.bridges[i].alive = FALSE]
            /\ UNCHANGED sockFiles
       ELSE /\ state' = [state EXCEPT !.bridges[i].listening = TRUE]
            /\ sockFiles' = sockFiles \cup {state.bridges[i].socket_path}
    /\ UNCHANGED <<platform, proxies, profileFile, ini, wrapc, rst,
                   lastInit, lastUpdate, afterReset>>

----------------------------------------------------------------------------
(* manager/state.rs, manager/mod.rs *)

\* ManagerState::default()
ManagerState_new ==
    [config |-> None, http_proxy |-> None, socks_proxy |-> None,
     http_proxy_port |-> None, socks_proxy_port |-> None,
     http_socket_path |-> None, socks_socket_path |-> None,
     bridges |-> <<>>, initialized |-> FALSE, network_ready |-> FALSE]

IniIdle == [pc |-> "idle", cfg |-> CfgOpen, http |-> 0, socks |-> 0]

\* initialize: config.validate()? returns the error
InitializeInvalid(cfg) ==
    /\ ini.pc = "idle"
    /\ ~validate(cfg)
    /\ lastInit' = "err"
    /\ UNCHANGED <<platform, state, proxies, profileFile, sockFiles, ini, wrapc,
                   rst, lastUpdate, afterReset>>

\* initialize: check_dependencies()? returns MissingDependency (bwrap or socat
\* absent; on macOS the check has nothing to miss)
InitializeDepsFail(cfg) ==
    /\ ini.pc = "idle"
    /\ validate(cfg)
    /\ platform = "linux"
    /\ lastInit' = "err"
    /\ UNCHANGED <<platform, state, proxies, profileFile, sockFiles, ini, wrapc,
                   rst, lastUpdate, afterReset>>

\* initialize: initialize_proxies fails to bind the HTTP listener
InitializeHttpBindFail(cfg) ==
    /\ ini.pc = "idle"
    /\ validate(cfg)
    /\ lastInit' = "err"
    /\ UNCHANGED <<platform, state, proxies, profileFile, sockFiles, ini, wrapc,
                   rst, lastUpdate, afterReset>>

\* initialize: initialize_proxies starts the HTTP proxy and then fails to bind
\* the SOCKS5 listener; the HTTP proxy object is dropped
InitializeSocksBindFail(cfg) ==
    /\ ini.pc = "idle"
    /\ validate(cfg)
    /\ FreeSlots # {}
    /\ LET h == LowestFree(FreeSlots)
           mitm == IF IsNone(cfg.network.mitm_proxy) THEN None
                   ELSE Some(Unwrap(cfg.network.mitm_proxy).socket_path)
       IN  proxies' = [proxies EXCEPT
                ![h] = stop(HttpProxy_new(from_config(cfg.network), mitm, h))]
    /\ lastInit' = "err"
    /\ UNCHANGED <<platform, state, profileFile, sockFiles, ini, wrapc, rst,
                   lastUpdate, afterReset>>

\* initialize up to the write lock: validate, check_dependencies and
\* initialize_proxies succeed; both proxies are bound and accepting
InitializeProxies(cfg) ==
    /\ ini.pc = "idle"
    /\ validate(cfg)
    /\ Cardinality(FreeSlots) >= 2
    /\ platform = "linux" => Len(state.bridges) + 2 <= MaxBridges
    /\ LET h == LowestFree(FreeSlots)
           s == LowestFree(FreeSlots \ {h})
           filter == from_config(cfg.network)
           mitm == IF IsNone(cfg.network.mitm_proxy) THEN None
                   ELSE Some(Unwrap(cfg.network.mitm_proxy).socket_path)
       IN  /\ proxies' = [proxies EXCEPT ![h] = HttpProxy_new(filter, mitm, h),
                                         ![s] = Socks5Proxy_new(filter, s)]
           /\ ini' = [pc |-> "proxies", cfg |-> cfg, http |-> h, socks |-> s]
    /\ UNCHANGED <<platform, state, profileFile, sockFiles, wrapc, rst,
                   lastInit, lastUpdate, afterReset>>

\* the state after `state.http_proxy = Some(..)` .. `state.socks_proxy_port = Some(..)`
WithProxies(st, h, s) ==
    [st EXCEPT !.http_proxy = Some(h), !.socks_proxy = Some(s),
               !.http_proxy_port = Some(proxies[h].port),
               !.socks_proxy_port = Some(proxies[s].port)]

\* the state after `state.config = Some(config); state.initialized = true;
\* state.network_ready = true`
Published(st, cfg) ==
    [st EXCEPT !.config = Some(cfg), !.initialized = TRUE, !.network_ready = TRUE]

\* initialize under the write lock on macOS: store the proxies, publish
InitializeCommitMacos ==
    /\ ini.pc = "proxies"
    /\ platform = "macos"
    /\ state' = Published(WithProxies(state, ini.http, ini.socks), ini.cfg)
    /\ proxies' = StopHeld(proxies, state.http_proxy, state.socks_proxy)
    /\ ini' = IniIdle
    /\ lastInit' = "ok"
    /\ lastUpdate' = None
    /\ afterReset' = FALSE
    /\ UNCHANGED <<platform, profileFile, sockFiles, wrapc, rst>>

\* initialize under the write lock on Linux: store the proxies, start the two
\* bridges (each removes a socket file already at its path), publish
InitializeCommitLinux(s1, s2) ==
    /\ ini.pc = "proxies"
    /\ platform = "linux"
    /\ LET http_socket_path == generate_socket_path("srt-http", s1)
           socks_socket_path == generate_socket_path("srt-socks", s2)
           st == WithProxies(state, ini.http, ini.socks)
       IN  /\ state' = Published(
                 [st EXCEPT
                    !.http_socket_path = Some(http_socket_path),
                    !.socks_socket_path = Some(socks_socket_path),
                    !.bridges = st.bridges \o
                        <<SocatBridge(http_socket_path, proxies[ini.http].port),
                          SocatBridge(socks_socket_path, proxies[ini.socks].port)>>],
                 ini.cfg)
           /\ sockFiles' = sockFiles \ {http_socket_path, socks_socket_path}
    /\ proxies' = StopHeld(proxies, state.http_proxy, state.socks_proxy)
    /\ ini' = IniIdle
    /\ lastInit' = "ok"
    /\ lastUpdate' = None
    /\ afterReset' = FALSE
    /\ UNCHANGED <<platform, profileFile, wrapc, rst>>

\* initialize under the write lock on Linux when SocatBridge::unix_to_tcp
\* fails (spawn error) for the first (n = 1) or the second (n = 2) bridge: the
\* proxies are already stored, the `?` returns, a first bridge already
\* started is dropped
InitializeBridgeFail(n, s1, s2) ==
    /\ ini.pc = "proxies"
    /\ platform = "linux"
    /\ state' = WithProxies(state, ini.http, ini.socks)
    /\ sockFiles' =
         IF n = 1 THEN sockFiles \ {generate_socket_path("srt-http", s1)}
         ELSE sockFiles \ {generate_socket_path("srt-http", s1),
                           generate_socket_path("srt-socks", s2)}
    /\ proxies' = StopHeld(proxies, state.http_proxy, state.socks_proxy)
    /\ ini' = IniIdle
    /\ lastInit' = "err"
    /\ UNCHANGED <<platform, profileFile, wrapc, rst, lastUpdate, afterReset>>

\* update_config with a policy that fails validation: the error is returned
UpdateConfigInvalid(cfg) ==
    /\ ~validate(cfg)
    /\ UNCHANGED varsMgr

\* update_config: validate, then replace state.config under the write lock
UpdateConfig(cfg) ==
    /\ validate(cfg)
    /\ state' = [state EXCEPT !.config = Some(cfg)]
    /\ lastUpdate' = Some(cfg)
    /\ UNCHANGED <<platform, proxies, profileFile, sockFiles, ini, wrapc, rst,
                   lastInit, afterReset>>

WrapIdle ==
    [pc |-> "idle", config |-> CfgOpen, http_port |-> None, socks_port |-> None,
     http_socket |-> None, socks_socket |-> None,
     atCall |-> [initialized |-> FALSE, lastInit |-> "none", afterReset |-> FALSE],
     atLock |-> [custom |-> FALSE, http_socket |-> None, socks_socket |-> None],
     result |-> "none", wrote |-> FALSE, out |-> None]

\* Mutant: the first block of wrap_with_sandbox without the `!state.initialized`
\* early return.
wrap_precheck_nocheck(st, custom_config) ==
    IF IsNone(custom_config) /\ IsNone(st.config) THEN "no_config"
    ELSE "ok"

\* wrap_with_sandbox, the block under the first read lock: which way it leaves
wrap_precheck(st, custom_config) ==
    IF ~st.initialized THEN "not_initialized"
    ELSE IF IsNone(custom_config) /\ IsNone(st.config) THEN "no_config"
    ELSE "ok"

\* wrap_with_sandbox under the first read lock: the error returns, or the
\* snapshot (config, http_port, socks_port); atLock notes, for the time of
\* the call, whether the config is the caller's and which socket paths the
\* state held under this lock
WrapBegin(custom_config) ==
    /\ wrapc.pc = "idle"
    /\ LET at == [initialized |-> state.initialized, lastInit |-> lastInit,
                  afterReset |-> afterReset]
       IN  IF wrap_precheck(state, custom_config) # "ok"
           THEN wrapc' = [WrapIdle EXCEPT !.atCall = at, !.result = "err"]
           ELSE wrapc' = [WrapIdle EXCEPT
                    !.pc = "snap",
                    !.config = IF IsSome(custom_config) THEN Unwrap(custom_config)
                               ELSE Unwrap(state.config),
                    !.http_port = state.http_proxy_port,
                    !.socks_port = state.socks_proxy_port,
                    !.atCall = at,
                    !.atLock = [custom |-> IsSome(custom_config),
                                http_socket |-> state.http_socket_path,
                                socks_socket |-> state.socks_socket_path]]
    /\ UNCHANGED <<platform, state, proxies, profileFile, sockFiles, ini, rst,
                   lastInit, lastUpdate, afterReset>>

\* the wrapped command, by what it embeds
Wrapped(w) ==
    [config |-> w.config, http_port |-> w.http_port, socks_port |-> w.socks_port,
     http_socket |-> w.http_socket, socks_socket |-> w.socks_socket]

\* wrap_with_sandbox on macOS after the lock is released: wrap_command writes
\* the profile to the process's one temporary path.  File::create may fail
\* (nothing written), write_all may fail (a partial file stays).  The call
\* returns and its locals are dropped; wrapc keeps what it returned
WrapMacos(outcome) ==
    /\ wrapc.pc = "snap"
    /\ platform = "macos"
    /\ profileFile' =
         CASE outcome = "ok" -> Some([config |-> wrapc.config, complete |-> TRUE])
           [] outcome = "write_err" -> Some([config |-> wrapc.config, complete |-> FALSE])
           [] OTHER -> profileFile
    /\ wrapc' = [WrapIdle EXCEPT
            !.atCall = wrapc.atCall,
            !.result = IF outcome = "ok" THEN "ok" ELSE "err",
            !.wrote = outcome # "create_err",
            !.out = IF outcome = "ok" THEN Some(Wrapped(wrapc)) ELSE None]
    /\ UNCHANGED <<platform, state, proxies, sockFiles, ini, rst,
                   lastInit, lastUpdate, afterReset>>

\* wrap_with_sandbox on Linux: the second read lock, taken after the first
\* was released, reads the socket paths
WrapLinuxSockets ==
    /\ wrapc.pc = "snap"
    /\ platform = "linux"
    /\ wrapc' = [wrapc EXCEPT !.pc = "sockets",
                              !.http_socket = state.http_socket_path,
                              !.socks_socket = state.socks_socket_path]
    /\ UNCHANGED <<platform, state, proxies, profileFile, sockFiles, ini, rst,
                   lastInit, lastUpdate, afterReset>>

\* wrap_with_sandbox on Linux: current_dir and generate_bwrap_command, either
\* of which may return an error
WrapLinux(ok) ==
    /\ wrapc.pc = "sockets"
    /\ platform = "linux"
    /\ wrapc' = [WrapIdle EXCEPT
            !.atCall = wrapc.atCall,
            !.result = IF ok THEN "ok" ELSE "err",
            !.out = IF ok THEN Some(Wrapped(wrapc)) ELSE None]
    /\ UNCHANGED <<platform, state, proxies, profileFile, sockFiles, ini, rst,
                   lastInit, lastUpdate, afterReset>>

\* reset on macOS, before the write lock is taken: cleanup_temp_profiles
\* removes the profile file if it exists
ResetCleanup ==
    /\ rst = "idle"
    /\ platform = "macos"
    /\ rst' = "cleaned"
    /\ profileFile' = None
    /\ UNCHANGED <<platform, state, proxies, sockFiles, ini, wrapc,
                   lastInit, lastUpdate, afterReset>>

\* Mutant: reset leaves the initialized flag set.
Cleared_keeps_initialized(st) ==
    [ManagerState_new EXCEPT !.initialized = st.initialized]

\* Mutant: reset drops only the last bridge of the list.
Cleared_pops_bridge(st) ==
    [st EXCEPT !.bridges = IF st.bridges = <<>> THEN <<>>
                           ELSE SubSeq(st.bridges, 1, Len(st.bridges) - 1),
               !.http_socket_path = None, !.socks_socket_path = None,
               !.http_proxy = None, !.socks_proxy = None,
               !.http_proxy_port = None, !.socks_proxy_port = None,
               !.config = None, !.initialized = FALSE, !.network_ready = FALSE]

\* the state after the assignments of reset
Cleared(st) ==
    [st EXCEPT !.bridges = <<>>, !.http_socket_path = None, !.socks_socket_path = None,
               !.http_proxy = None, !.socks_proxy = None,
               !.http_proxy_port = None, !.socks_proxy_port = None,
               !.config = None, !.initialized = FALSE, !.network_ready = FALSE]

\* reset under the write lock: stop both proxies, drop the bridges (each kills
\* its socat child and removes its socket file), clear the state; then return
ResetState ==
    /\ \/ platform = "macos" /\ rst = "cleaned"
       \/ platform = "linux" /\ rst = "idle"
    /\ proxies' = StopHeld(proxies, state.http_proxy, state.socks_proxy)
    /\ sockFiles' = sockFiles \ BridgePaths(state.bridges)
    /\ state' = Cleared(state)
    /\ rst' = "idle"
    /\ lastInit' = "none"
    /\ lastUpdate' = None
    /\ afterReset' = TRUE
    /\ UNCHANGED <<platform, profileFile, ini, wrapc>>

\* what the manager and the world around it consist of: the manager state,
\* the proxies' accept loops, and the files on disk
World == [state |-> state, proxies |-> proxies,
          profileFile |-> profileFile, sockFiles |-> sockFiles]

\* one reset() call run from start to end with no other call in between
reset(w) ==
    [state       |-> Cleared(w.state),
     proxies     |-> StopHeld(w.proxies, w.state.http_proxy, w.state.socks_proxy),
     profileFile |-> IF platform = "macos" THEN None ELSE w.profileFile,
     sockFiles   |-> w.sockFiles \ BridgePaths(w.state.bridges)]

----------------------------------------------------------------------------
(* proxy/http.rs, proxy/socks5.rs: one client connection through a proxy *)

\* SOCKS5 reply codes
REP_SUCCESS == 0
REP_CONNECTION_NOT_ALLOWED == 2
REP_HOST_UNREACHABLE == 4

\* HTTP status codes of the responses the proxy builds
OK == 200
FORBIDDEN == 403
NOT_IMPLEMENTED == 501
BAD_GATEWAY == 502

\* the ports a request falls back to when the URI names none; check ignores them
CONNECT_DEFAULT_PORT == 443
HTTP_DEFAULT_PORT == 80

\* no connection
ReqIdle ==
    [pc |-> "none", kind |-> "none", proxy |-> 0,
     filter |-> from_config(NetDefault), mitm_socket_path |-> None,
     host |-> <<>>, uri_host |-> None, keep_alive |-> FALSE,
     decision |-> "none", status |-> 0,
     upstream |-> None, via_mitm |-> FALSE, forwarded |-> FALSE,
     current |-> FALSE, policy |-> None, target |-> None]

\* Option<&str>::unwrap_or_default
unwrap_or_default(o) == IF IsNone(o) THEN <<>> ELSE Unwrap(o)

\* TcpStream::connect(format!("{}:{}", host, port)) can succeed only for a
\* non-empty host
Connectable(host) == host # <<>>

\* the accept loop of proxy i accepts a connection and spawns its handler
\* with a clone of the proxy's Arc<DomainFilter>; the select may still take
\* the accept branch after the shutdown signal has been sent
Accept(i) ==
    /\ req.pc \in {"none", "closed"}
    /\ proxies[i].kind \in {"http", "socks"}
    /\ proxies[i].loop \in {"running", "signalled"}
    /\ req' = [ReqIdle EXCEPT
            !.pc = "accepted", !.kind = proxies[i].kind, !.proxy = i,
            !.filter = proxies[i].filter,
            !.mitm_socket_path = proxies[i].mitm_socket_path]
    /\ UNCHANGED varsMgr

\* the fields every handler sets when it begins to handle a request
Begun(r, host, uri_host, keep_alive, decision) ==
    [r EXCEPT !.host = host, !.uri_host = uri_host, !.keep_alive = keep_alive,
              !.decision = decision,
              !.upstream = None, !.via_mitm = FALSE, !.forwarded = FALSE,
              !.target = None,
              !.current = (state.http_proxy = Some(r.proxy)
                           \/ state.socks_proxy = Some(r.proxy)),
              !.policy = lastUpdate]

\* serve_connection after a response has been written: HTTP/1.1 keep-alive
\* leaves the connection open for the next request unless the client asked
\* for it to be closed
AfterResponse(keep_alive) == IF keep_alive THEN "accepted" ELSE "closed"

\* handle_connect: `match decision`
connect_route(decision, mitm_socket_path) ==
    IF decision = Deny THEN "deny"
    ELSE IF decision = Mitm /\ IsSome(mitm_socket_path) THEN "mitm"
    ELSE "direct"

\* handle_connect: a CONNECT request
HandleConnect(uri_host, keep_alive) ==
    /\ req.pc = "accepted"
    /\ req.kind = "http"
    /\ LET host == unwrap_or_default(uri_host)
           decision == check(req.filter, host, CONNECT_DEFAULT_PORT)
           route == connect_route(decision, req.mitm_socket_path)
           r == Begun(req, host, uri_host, keep_alive, decision)
       IN  req' =
             CASE route = "deny" ->
                    [r EXCEPT !.status = FORBIDDEN, !.pc = AfterResponse(keep_alive)]
               [] route = "mitm" -> [r EXCEPT !.status = OK, !.pc = "mitm_tunnel"]
               [] OTHER -> [r EXCEPT !.status = OK, !.pc = "tunnel"]
    /\ UNCHANGED varsMgr

\* tunnel: connect to the target, or fail and drop the upgraded connection
Tunnel(ok) ==
    /\ req.pc = "tunnel"
    /\ ok => Connectable(req.host)
    /\ req' = IF ok THEN [req EXCEPT !.upstream = Some(req.host), !.pc = "piping"]
              ELSE [req EXCEPT !.pc = "closed"]
    /\ UNCHANGED varsMgr

\* tunnel_via_mitm: connect to the MITM proxy's Unix socket and send it the
\* CONNECT; on any failure the upgraded connection is dropped
TunnelViaMitm(ok) ==
    /\ req.pc = "mitm_tunnel"
    /\ req' = IF ok THEN [req EXCEPT !.via_mitm = TRUE, !.pc = "piping"]
              ELSE [req EXCEPT !.pc = "closed"]
    /\ UNCHANGED varsMgr

\* tokio::io::copy in both directions: client bytes reach the other end
Pipe ==
    /\ req.pc = "piping"
    /\ ~req.forwarded
    /\ req' = [req EXCEPT !.forwarded = TRUE]
    /\ UNCHANGED varsMgr

\* one side closes: the copy ends and both streams are dropped
PipeEnd ==
    /\ req.pc = "piping"
    /\ req' = [req EXCEPT !.pc = "closed"]
    /\ UNCHANGED varsMgr

\* Mutant: handle_http forwards a request whatever the decision.
http_route_deny_forwards(decision, mitm_socket_path) ==
    IF decision = Mitm /\ IsSome(mitm_socket_path) THEN "mitm"
    ELSE "forward"

\* handle_http: the two `matches!` tests
http_route(decision, mitm_socket_path) ==
    IF decision = Deny THEN "deny"
    ELSE IF decision = Mitm /\ IsSome(mitm_socket_path) THEN "mitm"
    ELSE "forward"

\* handle_http: a request that is not CONNECT; the host is the URI's, else
\* the Host header's up to the first ':', else empty
HandleHttp(uri_host, host_header, keep_alive) ==
    /\ req.pc = "accepted"
    /\ req.kind = "http"
    /\ LET host == IF IsSome(uri_host) THEN Unwrap(uri_host)
                   ELSE unwrap_or_default(host_header)
           decision == check(req.filter, host, HTTP_DEFAULT_PORT)
           route == http_route(decision, req.mitm_socket_path)
           r == Begun(req, host, uri_host, keep_alive, decision)
       IN  req' =
             CASE route = "deny" ->
                    [r EXCEPT !.status = FORBIDDEN, !.pc = AfterResponse(keep_alive)]
               [] route = "mitm" ->
                    [r EXCEPT !.status = NOT_IMPLEMENTED, !.pc = AfterResponse(keep_alive)]
               [] OTHER -> [r EXCEPT !.status = 0, !.pc = "forward"]
    /\ UNCHANGED varsMgr

\* forward_http: connect to the URI's host (empty when the URI has none) and
\* relay the request; a connect, handshake or request error becomes 502.
\* target is the host handed to TcpStream::connect, upstream the host of
\* the connection when it was opened
ForwardHttp(outcome) ==
    /\ req.pc = "forward"
    /\ LET host == unwrap_or_default(req.uri_host)
       IN  /\ outcome # "connect_err" => Connectable(host)
           /\ req' =
                CASE outcome = "ok" ->
                       [req EXCEPT !.target = Some(host),
                                   !.upstream = Some(host), !.forwarded = TRUE,
                                   !.status = OK, !.pc = AfterResponse(req.keep_alive)]
                  [] outcome = "request_err" ->
                       [req EXCEPT !.target = Some(host),
                                   !.upstream = Some(host), !.status = BAD_GATEWAY,
                                   !.pc = AfterResponse(req.keep_alive)]
                  [] OTHER ->
                       [req EXCEPT !.target = Some(host), !.status = BAD_GATEWAY,
                                   !.pc = AfterResponse(req.keep_alive)]
    /\ UNCHANGED varsMgr

\* handle_client: greeting and a CONNECT request for a domain name, up to the
\* filter check; a denied request is answered REP 0x02 and the stream dropped
HandleClient(host) ==
    /\ req.pc = "accepted"
    /\ req.kind = "socks"
    /\ LET decision == check(req.filter, host, CONNECT_DEFAULT_PORT)
           r == Begun(req, host, None, FALSE, decision)
       IN  req' = IF decision = Deny
                  THEN [r EXCEPT !.status = REP_CONNECTION_NOT_ALLOWED, !.pc = "closed"]
                  ELSE [r EXCEPT !.status = 0, !.pc = "socks_connect"]
    /\ UNCHANGED varsMgr

\* handle_client: connect to the target; REP 0x00 and piping, or REP 0x04
SocksConnect(ok) ==
    /\ req.pc = "socks_connect"
    /\ ok => Connectable(req.host)
    /\ req' = IF ok
              THEN [req EXCEPT !.upstream = Some(req.host), !.status = REP_SUCCESS,
                               !.pc = "piping"]
              ELSE [req EXCEPT !.status = REP_HOST_UNREACHABLE, !.pc = "closed"]
    /\ UNCHANGED varsMgr

\* the client closes a connection the proxy is waiting on
ClientClose ==
    /\ req.pc = "accepted"
    /\ req' = [req EXCEPT !.pc = "closed"]
    /\ UNCHANGED varsMgr

\* the hosts requests name: none, "a" and "B"
ReqHosts == {None, Some(HostA), Some(<<"B">>)}

NextReq ==
    \/ \E i \in ProxySlots : Accept(i)
    \/ \E h \in ReqHosts, k \in BOOLEAN : HandleConnect(h, k)
    \/ \E ok \in BOOLEAN : Tunnel(ok)
    \/ \E ok \in BOOLEAN : TunnelViaMitm(ok)
    \/ Pipe
    \/ PipeEnd
    \/ \E u \in ReqHosts, h \in ReqHosts, k \in BOOLEAN : HandleHttp(u, h, k)
    \/ \E outcome \in {"ok", "connect_err", "request_err"} : ForwardHttp(outcome)
    \/ \E h \in ReqHosts : HandleClient(unwrap_or_default(h))
    \/ \E ok \in BOOLEAN : SocksConnect(ok)
    \/ ClientClose

\* the manager calls made while the proxies serve: initialize, update_config
\* and reset, on the macOS target (the proxies are the same code on both)
ProxyInitConfigs == {CfgDenyB, CfgMitmA}
ProxyUpdateConfigs == {CfgOpen}

NextProxyMgr ==
    \/ \E cfg \in ProxyInitConfigs : InitializeProxies(cfg)
    \/ InitializeCommitMacos
    \/ \E cfg \in ProxyUpdateConfigs : UpdateConfig(cfg)
    \/ ResetCleanup
    \/ ResetState
    \/ \E i \in ProxySlots : AcceptLoopExit(i)

----------------------------------------------------------------------------
(* Specification Spec: the manager under concurrent initialize,
   update_config, wrap_with_sandbox and reset calls *)

InitMgr ==
    /\ platform \in {"macos", "linux"}
    /\ state = ManagerState_new
    /\ proxies = [i \in ProxySlots |-> Unused]
    /\ profileFile = None
    /\ sockFiles = {}
    /\ ini = IniIdle
    /\ wrapc = WrapIdle
    /\ rst = "idle"
    /\ lastInit = "none"
    /\ lastUpdate = None
    /\ afterReset = FALSE

\* the manager part when a specification does not exercise it
IdleMgr == InitMgr /\ platform = "macos"

\* the policies the calls of this specification are made with
InitConfigs == {CfgOpen, CfgBad}
UpdateConfigs == {CfgDenyB, CfgBad}
CustomConfigs == {None, Some(CfgDenyB)}

NextMgr ==
    \/ \E cfg \in InitConfigs : InitializeInvalid(cfg)
    \/ \E cfg \in InitConfigs : InitializeDepsFail(cfg)
    \/ \E cfg \in InitConfigs : InitializeHttpBindFail(cfg)
    \/ \E cfg \in InitConfigs : InitializeSocksBindFail(cfg)
    \/ \E cfg \in InitConfigs : InitializeProxies(cfg)
    \/ InitializeCommitMacos
    \/ \E s1 \in Draws("srt-http"), s2 \in Draws("srt-socks") : InitializeCommitLinux(s1, s2)
    \/ \E n \in {1, 2}, s1 \in Draws("srt-http"), s2 \in Draws("srt-socks") :
          InitializeBridgeFail(n, s1, s2)
    \/ \E cfg \in UpdateConfigs : UpdateConfigInvalid(cfg)
    \/ \E cfg \in UpdateConfigs : UpdateConfig(cfg)
    \/ \E custom \in CustomConfigs : WrapBegin(custom)
    \/ \E outcome \in {"ok", "create_err", "write_err"} : WrapMacos(outcome)
    \/ WrapLinuxSockets
    \/ \E ok \in BOOLEAN : WrapLinux(ok)
    \/ ResetCleanup
    \/ ResetState
    \/ \E i \in 1..MaxBridges : SocatBind(i)
    \/ \E i \in ProxySlots : AcceptLoopExit(i)

----------------------------------------------------------------------------
(* sandbox/macos/profile.rs: the filesystem rules of the Seatbelt profile *)

\* a filesystem path is the sequence of its components; an absolute path
\* begins with the component "/"

\* DANGEROUS_FILES
DANGEROUS_FILES ==
    <<".gitconfig", ".bashrc", ".bash_profile", ".bash_login", ".profile",
      ".zshrc", ".zprofile", ".zshenv", ".zlogin", ".mcp.json",
      ".mcp-settings.json", ".npmrc", ".yarnrc", ".yarnrc.yml">>

\* DANGEROUS_DIRECTORIES
DANGEROUS_DIRECTORIES ==
    <<<<".git", "hooks">>, <<".git">>, <<".vscode">>, <<".idea">>,
      <<".claude", "commands">>>>

\* ASCII case folding of the file names the model spells in another case
FoldName(c) ==
    CASE c = ".BASHRC" -> ".bashrc"
      [] c = ".GitConfig" -> ".gitconfig"
      [] OTHER -> c

\* one line of the profile: (action op filter)
Rule(action, op, kind, arg) == [action |-> action, op |-> op, kind |-> kind, arg |-> arg]

\* Option<bool>::unwrap_or(false)
unwrap_or_false(o) == IF IsNone(o) THEN FALSE ELSE Unwrap(o)

\* the rule for one allow / deny entry: a regex when the entry has glob
\* characters ("<path>/**" becomes ^<path>/.*$), else a subpath
PathRule(action, op, entry) ==
    IF entry.glob THEN Rule(action, op, "under_regex", entry.path)
    ELSE Rule(action, op, "subpath", entry.path)

\* generate_mandatory_deny_rules, the loop over DANGEROUS_FILES: the regex
\* ^.*/<name>$ with every letter as [Xx]
RECURSIVE MandatoryFileRules(_, _)
MandatoryFileRules(i, allow_git_config) ==
    IF i > Len(DANGEROUS_FILES) THEN <<>>
    ELSE IF DANGEROUS_FILES[i] = ".gitconfig" /\ unwrap_or_false(allow_git_config)
    THEN MandatoryFileRules(i + 1, allow_git_config)
    ELSE <<Rule("deny", "file-write*", "file_regex", <<DANGEROUS_FILES[i]>>)>>
            \o MandatoryFileRules(i + 1, allow_git_config)

\* generate_mandatory_deny_rules, the loop over DANGEROUS_DIRECTORIES: the
\* subpath of the relative name and the regex ^.*/<dir>(/.*)?$; for ".git"
\* with allow_git_config only the subpath "/.git/hooks"
RECURSIVE MandatoryDirRules(_, _)
MandatoryDirRules(i, allow_git_config) ==
    IF i > Len(DANGEROUS_DIRECTORIES) THEN <<>>
    ELSE IF DANGEROUS_DIRECTORIES[i] = <<".git">> /\ unwrap_or_false(allow_git_config)
    THEN <<Rule("deny", "file-write*", "subpath", <<"/", ".git", "hooks">>)>>
            \o MandatoryDirRules(i + 1, allow_git_config)
    ELSE <<Rule("deny", "file-write*", "subpath", DANGEROUS_DIRECTORIES[i]),
           Rule("deny", "file-write*", "dir_regex", DANGEROUS_DIRECTORIES[i])>>
            \o MandatoryDirRules(i + 1, allow_git_config)

\* generate_mandatory_deny_rules
generate_mandatory_deny_rules(config) ==
    MandatoryFileRules(1, config.allow_git_config)
        \o MandatoryDirRules(1, config.allow_git_config)

\* the elements of a sequence
Range(s) == {s[i] : i \in 1..Len(s)}

\* the orders in which a HashSet may be iterated
RECURSIVE Orders(_)
Orders(S) ==
    IF S = {} THEN {<<>>}
    ELSE UNION {{<<x>> \o o : o \in Orders(S \ {x})} : x \in S}

\* Mutant: the mandatory denies are emitted before the allow rules.
generate_filesystem_rules_deny_first(config, order) ==
    <<Rule("allow", "file-read*", "any", <<>>)>>
        \o [i \in 1..Len(config.deny_read) |-> PathRule("deny", "file-read*", config.deny_read[i])]
        \o generate_mandatory_deny_rules(config)
        \o [i \in 1..Len(order) |-> PathRule("allow", "file-write*", order[i])]
        \o [i \in 1..Len(config.deny_write) |-> PathRule("deny", "file-write*", config.deny_write[i])]
        \o <<Rule("deny", "file-write-unlink", "any", <<>>)>>

\* generate_filesystem_rules; order is the iteration order of the HashSet
\* allowed_paths
generate_filesystem_rules(config, order) ==
    <<Rule("allow", "file-read*", "any", <<>>)>>
        \o [i \in 1..Len(config.deny_read) |-> PathRule("deny", "file-read*", config.deny_read[i])]
        \o [i \in 1..Len(order) |-> PathRule("allow", "file-write*", order[i])]
        \o [i \in 1..Len(config.deny_write) |-> PathRule("deny", "file-write*", config.deny_write[i])]
        \o generate_mandatory_deny_rules(config)
        \o <<Rule("deny", "file-write-unlink", "any", <<>>)>>

\* the filter of a rule matches the path
RuleMatches(rule, p) ==
    CASE rule.kind = "subpath" -> starts_with(p, rule.arg)
      [] rule.kind = "under_regex" -> starts_with(p, rule.arg) /\ Len(p) > Len(rule.arg)
      [] rule.kind = "file_regex" -> Len(p) >= 2 /\ FoldName(p[Len(p)]) = rule.arg[1]
      [] rule.kind = "dir_regex" ->
            \E i \in 2..(Len(p) - Len(rule.arg) + 1) :
                SubSeq(p, i, i + Len(rule.arg) - 1) = rule.arg
      [] OTHER -> TRUE

\* the profile lets the path be written: the last file-write* rule that
\* matches decides ("deny ... (overrides allow)"), (deny default) otherwise
Writable(profile, p) ==
    LET hits == {i \in 1..Len(profile) :
                    profile[i].op = "file-write*" /\ RuleMatches(profile[i], p)}
    IN  hits # {} /\ profile[CHOOSE i \in hits : \A j \in hits : j <= i].action = "allow"

\* most entries in allow_write
MaxWriteEntries == 2

\* the normalized allow_write / deny_write entries policies are built from
Entry(path, glob) == [path |-> path, glob |-> glob]
AllowEntries ==
    {Entry(<<"/", "w">>, FALSE), Entry(<<"/", "w">>, TRUE),
     Entry(<<"/", "w", ".git">>, FALSE), Entry(<<"/", "w", ".git", "hooks">>, FALSE),
     Entry(<<"/", "w", ".bashrc">>, FALSE), Entry(<<"/">>, FALSE)}
DenyEntries == {Entry(<<"/", "w", "secret">>, FALSE), Entry(<<"/", "w">>, TRUE)}
FsConfigs ==
    [deny_read : {<<>>, <<Entry(<<"/", "w", "secret">>, FALSE)>>},
     allow_write : UNION {[1..k -> AllowEntries] : k \in 0..MaxWriteEntries},
     deny_write : {<<>>} \cup {<<e>> : e \in DenyEntries},
     allow_git_config : {None, Some(FALSE), Some(TRUE)}]

IdleProfile == pConfig = [deny_read |-> <<>>, allow_write |-> <<>>, deny_write |-> <<>>,
                          allow_git_config |-> None] /\ pProfile = <<>> /\ pDone = TRUE

InitProfileInputs == pConfig \in FsConfigs /\ pProfile = <<>> /\ pDone = FALSE

\* one call generate_filesystem_rules(&mut profile, &pConfig)
GenerateProfile ==
    /\ ~pDone
    /\ \E order \in Orders(Range(pConfig.allow_write)) :
          pProfile' = generate_filesystem_rules(pConfig, order)
    /\ pDone' = TRUE
    /\ UNCHANGED pConfig

----------------------------------------------------------------------------
(* The bubblewrap argv (sandbox/linux/filesystem.rs, sandbox/linux/bwrap.rs,
   utils/path.rs).  A String is the one-element sequence of its text, a path
   the sequence of its components; a component "*" stands for glob syntax. *)

Str(s) == <<s>>
Cwd == <<"/", "a">>
Home == <<"/", "h">>
LinkPath == <<"/", "a", "b", "link">>
DevNull == <<"/", "dev", "null">>

\* the file systems the command is generated on: LinkPath is absent, a
\* directory or a symlink; /a/.git may exist; ripgrep may be missing
LinkTargets == {<<"/", "a">>, <<"/">>, <<"/", "c">>}
Worlds ==
    [link : {"absent", "dir"}, target : {<<>>}, git : BOOLEAN, rg : BOOLEAN]
      \cup [link : {"symlink"}, target : LinkTargets, git : BOOLEAN, rg : BOOLEAN]

\* the paths that exist in a world without following a symlink
Present(w) ==
    {<<"/">>, Cwd, <<"/", "a", "b">>, <<"/", "c">>, Home,
     <<"/", "a", ".bashrc">>, <<"/", "h", ".gitconfig">>}
      \cup (IF w.git THEN {<<"/", "a", ".git">>} ELSE {})
      \cup (IF w.link = "dir" THEN {LinkPath} ELSE {})

\* the path with the symlink on it followed
Resolve(w, p) ==
    IF w.link = "symlink" /\ starts_with(p, LinkPath)
    THEN w.target \o SubSeq(p, Len(LinkPath) + 1, Len(p))
    ELSE p

\* Path::exists (follows symlinks)
exists(w, p) == Resolve(w, p) \in Present(w)

\* std::fs::canonicalize: None for Err
canonicalize(w, p) == IF exists(w, p) THEN Some(Resolve(w, p)) ELSE None

\* expand_home
expand_home(p) == IF p # <<>> /\ p[1] = "~" THEN Home \o Tail(p) ELSE p

\* normalize_path_for_sandbox
normalize_path_for_sandbox(w, p) ==
    IF IsSome(canonicalize(w, expand_home(p)))
    THEN Unwrap(canonicalize(w, expand_home(p)))
    ELSE expand_home(p)

\* contains_glob_chars
contains_glob_chars(p) == \E i \in 1..Len(p) : p[i] = "*"

\* is_symlink_outside_boundary
is_symlink_outside_boundary(original, resolved) ==
    \/ resolved = <<"/">>
    \/ starts_with(original, resolved) /\ original # resolved

\* BindMount::readonly, BindMount::writable, BindMount::block
BindMount_readonly(path) == [source |-> path, target |-> path, readonly |-> TRUE, dev_null |-> FALSE]
BindMount_writable(path) == [source |-> path, target |-> path, readonly |-> FALSE, dev_null |-> FALSE]
BindMount_block(path) == [source |-> DevNull, target |-> path, readonly |-> TRUE, dev_null |-> TRUE]

\* BindMount::to_bwrap_args
to_bwrap_args(m) ==
    IF m.dev_null THEN <<Str("--ro-bind"), DevNull, m.target>>
    ELSE IF m.readonly THEN <<Str("--ro-bind"), m.source, m.target>>
    ELSE <<Str("--bind"), m.source, m.target>>

\* find_dangerous_files(..).unwrap_or_default(): what ripgrep lists under
\* cwd, nothing when ripgrep is missing
find_dangerous_files(w) ==
    IF w.rg
    THEN {p \in Present(w) : starts_with(p, Cwd) /\ FoldName(p[Len(p)]) \in Range(DANGEROUS_FILES)}
    ELSE {}

\* generate_bind_mounts: the HashSet writable_paths
writable_paths(w, config) ==
    {normalize_path_for_sandbox(w, config.allow_write[i]) :
        i \in {k \in 1..Len(config.allow_write) :
                  /\ ~contains_glob_chars(config.allow_write[k])
                  /\ exists(w, normalize_path_for_sandbox(w, config.allow_write[k]))}}

\* generate_bind_mounts: the HashSet deny_paths
deny_paths(w, config) ==
    {normalize_path_for_sandbox(w, config.deny_write[i]) :
        i \in {k \in 1..Len(config.deny_write) : ~contains_glob_chars(config.deny_write[k])}}
      \cup find_dangerous_files(w)
      \cup {p \in {base \o d : base \in {Cwd, Home}, d \in Range(DANGEROUS_DIRECTORIES)} :
                exists(w, p)}
      \cup {p \in {Home \o <<f>> : f \in Range(DANGEROUS_FILES)} :
                /\ ~(p[Len(p)] = ".gitconfig" /\ unwrap_or_false(config.allow_git_config))
                /\ exists(w, p)}

\* generate_bind_mounts, the mount of one writable path
WritableMount(w, path) ==
    IF /\ IsSome(canonicalize(w, path))
       /\ is_symlink_outside_boundary(path, Unwrap(canonicalize(w, path)))
    THEN BindMount_block(path)
    ELSE BindMount_writable(path)

\* generate_bind_mounts, the mount of one deny path
DenyMount(w, path) ==
    IF exists(w, path) THEN BindMount_readonly(path) ELSE BindMount_block(path)

\* generate_bind_mounts; worder and dorder are the iteration orders of the two
\* HashSets
generate_bind_mounts(w, worder, dorder) ==
    [i \in 1..Len(worder) |-> WritableMount(w, worder[i])]
        \o [i \in 1..Len(dorder) |-> DenyMount(w, dorder[i])]

\* the arguments of the mounts whose readonly flag is ro, in list order
RECURSIVE MountArgs(_, _)
MountArgs(mounts, ro) ==
    IF mounts = <<>> THEN <<>>
    ELSE (IF Head(mounts).readonly = ro THEN to_bwrap_args(Head(mounts)) ELSE <<>>)
            \o MountArgs(Tail(mounts), ro)

\* generate_bwrap_command: the arguments before the mounts
BwrapBase ==
    <<Str("bwrap"), Str("--unshare-net"), Str("--dev"), <<"/", "dev">>, Str("--proc"),
      <<"/", "proc">>, Str("--tmpfs"), <<"/", "tmp">>, Str("--tmpfs"), <<"/", "run">>,
      Str("--ro-bind"), <<"/">>, <<"/">>>>

\* generate_bwrap_command: the arguments after the mounts
BwrapTail ==
    <<Str("--chdir"), Cwd, Str("--"), <<"/", "bin", "bash">>, Str("-c"), Str("inner_command")>>

\* Mutant: the read-only mounts are emitted before the writable ones.
generate_bwrap_command_readonly_first(mounts) ==
    BwrapBase \o MountArgs(mounts, TRUE) \o MountArgs(mounts, FALSE) \o BwrapTail

\* generate_bwrap_command: the argv before quoting and joining
generate_bwrap_command(mounts) ==
    BwrapBase \o MountArgs(mounts, FALSE) \o MountArgs(mounts, TRUE) \o BwrapTail

\* most entries in allow_write of a generated command
MaxJailEntries == 2

JailAllowEntries ==
    {LinkPath, Cwd, <<"/">>, <<"~">>, <<"/", "a", "*">>}
JailDenyEntries == {<<"/", "a", "b">>, <<"/", "nx">>, <<"/", "a", "*">>}
JailConfigs ==
    [deny_read : {<<>>},
     allow_write : UNION {[1..k -> JailAllowEntries] : k \in 0..MaxJailEntries},
     deny_write : {<<>>} \cup {<<e>> : e \in JailDenyEntries},
     allow_git_config : {None, Some(TRUE)}]

IdleJail ==
    /\ jWorld = [link |-> "absent", target |-> <<>>, git |-> FALSE, rg |-> FALSE]
    /\ jConfig = [deny_read |-> <<>>, allow_write |-> <<>>, deny_write |-> <<>>,
                  allow_git_config |-> None]
    /\ jMounts = <<>> /\ jArgv = <<>> /\ jDone = TRUE

InitJailInputs ==
    /\ jWorld \in Worlds
    /\ jConfig \in JailConfigs
    /\ jMounts = <<>> /\ jArgv = <<>> /\ jDone = FALSE

\* one call generate_bwrap_command(command, &config, cwd, ..)
GenerateBwrapCommand ==
    /\ ~jDone
    /\ \E worder \in Orders(writable_paths(jWorld, jConfig)) :
          \E dorder \in Orders(deny_paths(jWorld, jConfig)) :
              /\ jMounts' = generate_bind_mounts(jWorld, worder, dorder)
              /\ jArgv' = generate_bwrap_command(generate_bind_mounts(jWorld, worder, dorder))
    /\ jDone' = TRUE
    /\ UNCHANGED <<jWorld, jConfig>>

----------------------------------------------------------------------------
(* violation/store.rs: SandboxViolationStore.  The timestamp of an event is
   left out; an event is told from another by its line. *)

\* MAX_VIOLATIONS
MAX_VIOLATIONS == 100

\* most add_violation calls counted by total_count in a checked behaviour
MaxTotal == 103

\* most listeners subscribed
MaxListeners == 1

\* the threads that call add_violation, and the line of the events each adds
Adders == {"main", "racer"}
LineOf(t) == IF t = "main" THEN "x" ELSE "r"

\* SandboxViolationEvent::new(line)
SandboxViolationEvent_new(line) == [line |-> line, command |-> None, encoded_command |-> None]

\* SandboxViolationEvent::with_command(line, command, encoded)
SandboxViolationEvent_with_command(line, command, encoded) ==
    [line |-> line, command |-> command, encoded_command |-> encoded]

\* Mutant: the newest entry is dropped when the store is full.
trim_drops_newest(violations) ==
    IF Len(violations) > MAX_VIOLATIONS
    THEN SubSeq(violations, 1, Len(violations) - 1)
    ELSE violations

\* add_violation: `if violations.len() > MAX_VIOLATIONS { violations.remove(0); }`
trim(violations) ==
    IF Len(violations) > MAX_VIOLATIONS THEN Tail(violations) ELSE violations

\* Mutant: the counter stops at the capacity of the store.
bump_saturating(total) == IF total < MAX_VIOLATIONS THEN total + 1 ELSE total

\* add_violation: `*total += 1`
bump(total) == total + 1

\* get_count
get_count == Len(vViolations)

\* get_total_count
get_total_count == vTotal

\* get_violations(limit)
get_violations(limit) ==
    SubSeq(vViolations, 1,
           IF IsNone(limit) \/ Unwrap(limit) > Len(vViolations)
           THEN Len(vViolations) ELSE Unwrap(limit))

\* get_violations_for_command(command)
get_violations_for_command(command) ==
    SelectSeq(vViolations, LAMBDA v : v.command = Some(command))

\* add_violation up to `drop(listeners)`: every listener is called with the
\* event; the racing thread adds one event at a time to the store
AddViolationNotify(t) ==
    /\ vAdd[t] = "idle"
    /\ vTotal + Cardinality({u \in Adders : vAdd[u] = "notified"}) < MaxTotal
    /\ t = "racer" => \A i \in 1..Len(vViolations) : vViolations[i].line # LineOf(t)
    /\ vAdd' = [vAdd EXCEPT ![t] = "notified"]
    /\ vHeard' = IF vListeners > 0 THEN Some(LineOf(t)) ELSE vHeard
    /\ UNCHANGED <<vViolations, vTotal, vListeners>>

\* add_violation under the two write locks: push, count, trim
AddViolationStore(t) ==
    /\ vAdd[t] = "notified"
    /\ vViolations' = trim(Append(vViolations, SandboxViolationEvent_new(LineOf(t))))
    /\ vTotal' = bump(vTotal)
    /\ vAdd' = [vAdd EXCEPT ![t] = "idle"]
    /\ UNCHANGED <<vListeners, vHeard>>

\* clear
Clear ==
    /\ vViolations # <<>> \/ vTotal # 0
    /\ vViolations' = <<>>
    /\ vTotal' = 0
    /\ UNCHANGED <<vListeners, vHeard, vAdd>>

\* subscribe: the listener is pushed, its index is the id returned
Subscribe ==
    /\ vListeners < MaxListeners
    /\ vListeners' = vListeners + 1
    /\ UNCHANGED <<vViolations, vTotal, vHeard, vAdd>>

\* SandboxViolationStore::new()
SandboxViolationStore_new ==
    /\ vViolations = <<>> /\ vTotal = 0 /\ vListeners = 0
    /\ vHeard = None /\ vAdd = [t \in Adders |-> "idle"]

IdleStore == SandboxViolationStore_new

NextStoreOps ==
    \/ \E t \in Adders : AddViolationNotify(t)
    \/ \E t \in Adders : AddViolationStore(t)
    \/ Clear
    \/ Subscribe

----------------------------------------------------------------------------
(* SandboxRuntimeConfig::validate applied to one policy, any number of times *)

\* longest pattern built from the whole alphabet
MaxPatLen == 3

\* most calls of validate on the one policy
MaxValidateCalls == 2

ValAlphabet == {"*", ".", ":", "a", "Z", "9", "-", "_", "!", "é"}

\* the patterns under test: every short string, and "*." followed by
\* suffixes around the length that counts as too broad
ValPatterns ==
    Strs(ValAlphabet, MaxPatLen)
      \cup {<<"*", ".">> \o [i \in 1..k |-> "a"] : k \in 0..(TooBroadLen + 1)}
      \cup {<<"*", ".", "a", "a", ".", "a">>, <<"*", ".", "a", "a", "a", "a", ":">>,
            <<"*", ".", "a", "a", "a", "a", "a", "!">>}

\* the policy with the list l as its allow list, deny list or MITM list
ValConfig(which, l) ==
    CASE which = "allow" -> [network |-> [NetDefault EXCEPT !.allowed_domains = l]]
      [] which = "deny" -> [network |-> [NetDefault EXCEPT !.denied_domains = l]]
      [] OTHER -> [network |-> [NetDefault EXCEPT
                      !.mitm_proxy = Some([socket_path |-> MitmSock, domains |-> l])]]

IdleValidate == valConfig = CfgOpen /\ valResult = "none" /\ valCalls = 0

\* the pattern under test alone or after a valid pattern, in one of the three
\* lists; or no pattern under test
InitValidateInputs ==
    /\ \/ \E which \in {"allow", "deny", "mitm"}, pre \in {<<>>, <<HostA>>}, p \in ValPatterns :
              valConfig = ValConfig(which, pre \o <<p>>)
       \/ \E which \in {"allow", "deny", "mitm"}, l \in {<<>>, <<HostA>>} :
              valConfig = ValConfig(which, l)
    /\ valResult = "none"
    /\ valCalls = 0

\* one call config.validate()
Validate ==
    /\ valCalls < MaxValidateCalls
    /\ valResult' = IF validate(valConfig) THEN "Ok" ELSE "InvalidDomainPattern"
    /\ valCalls' = valCalls + 1
    /\ UNCHANGED valConfig

----------------------------------------------------------------------------
(* main.rs: the control fd reader task, and update_config called directly.
   A line of the control fd is [utf8, ws, body, config]: whether its bytes
   are valid UTF-8, whether blanks surround its body, and its body: nothing,
   text that is no JSON policy, or the JSON text of a policy. *)

Line(utf8, ws, body, config) == [utf8 |-> utf8, ws |-> ws, body |-> body, config |-> config]

\* the lines written to the control fd
CtlLines ==
    {Line(TRUE, ws, body, CfgOpen) : ws \in BOOLEAN, body \in {"empty", "garbage"}}
      \cup {Line(TRUE, ws, "json", cfg) : ws \in BOOLEAN, cfg \in {CfgDenyB, CfgMitmA, CfgBad}}
      \cup {Line(FALSE, FALSE, "garbage", CfgOpen)}

\* the policies update_config is called with directly
CtlPolicies == {CfgDenyB, CfgBad}

\* str::trim
str_trim(content) == [content EXCEPT !.ws = FALSE]

\* parse_config: serde_json::from_str, then validate; None for Err
parse_config(json) ==
    IF json.body = "json" /\ validate(json.config) THEN Some(json.config) ELSE None

\* load_config_from_string
load_config_from_string(content) ==
    IF str_trim(content).body = "empty" THEN None
    ELSE parse_config(str_trim(content))

CtlIdle == [reader |-> "none", tick |-> 0, input |-> Line(TRUE, FALSE, "empty", CfgOpen),
            result |-> "none"]

\* what a consumed input leaves in ctl
Consumed(c, input, result) ==
    [c EXCEPT !.tick = 1 - c.tick, !.input = input, !.result = result]

\* main: tokio::spawn of the reader task, after initialize returned Ok
CtlSpawn ==
    /\ ctl.reader = "none"
    /\ state.initialized
    /\ ctl' = [ctl EXCEPT !.reader = "running"]
    /\ UNCHANGED varsMgr

\* the reader loop, `Ok(Some(line))`: a line of valid UTF-8 is read; a policy
\* that loads is handed to update_config, any other line is skipped
CtlLine(line) ==
    /\ ctl.reader = "running"
    /\ line.utf8
    /\ IF IsSome(load_config_from_string(line))
       THEN /\ UpdateConfig(Unwrap(load_config_from_string(line)))
            /\ ctl' = Consumed(ctl, line, "updated")
       ELSE /\ UNCHANGED varsMgr
            /\ ctl' = Consumed(ctl, line, "skipped")

\* the reader loop, `Err(e)`: next_line fails on a line that is not valid
\* UTF-8 (InvalidData); the loop breaks
CtlLineNotUtf8(line) ==
    /\ ctl.reader = "running"
    /\ ~line.utf8
    /\ ctl' = [Consumed(ctl, line, "read_error") EXCEPT !.reader = "stopped"]
    /\ UNCHANGED varsMgr

\* the reader loop ends: `Ok(None)` (EOF), `Err(e)` of a failed read, or the
\* shutdown signal
CtlStop ==
    /\ ctl.reader = "running"
    /\ ctl' = [ctl EXCEPT !.reader = "stopped"]
    /\ UNCHANGED varsMgr

\* update_config(cfg) called on the manager directly
CtlUpdatePolicy(cfg) ==
    /\ state.initialized
    /\ IF validate(cfg)
       THEN /\ UpdateConfig(cfg)
            /\ ctl' = Consumed(ctl, Line(TRUE, FALSE, "json", cfg), "ok")
       ELSE /\ UpdateConfigInvalid(cfg)
            /\ ctl' = Consumed(ctl, Line(TRUE, FALSE, "json", cfg), "err")

IdleCtl == ctl = CtlIdle

NextCtl ==
    \/ \E cfg \in ProxyInitConfigs : InitializeProxies(cfg) /\ UNCHANGED ctl
    \/ InitializeCommitMacos /\ UNCHANGED ctl
    \/ CtlSpawn
    \/ \E line \in CtlLines : CtlLine(line)
    \/ \E line \in CtlLines : CtlLineNotUtf8(line)
    \/ CtlStop
    \/ \E cfg \in CtlPolicies : CtlUpdatePolicy(cfg)

----------------------------------------------------------------------------
(* proxy/http.rs, proxy/socks5.rs: the two tokio::io::copy futures of a
   tunnel or relay, and the join that waits for them.  A direction is
   [recv, sent, st]: the bytes its source has sent, the bytes written to its
   destination, and whether its copy is running, has returned Ok at the end
   of the stream ("done") or has returned Err ("failed"). *)

\* most bytes one end sends in a checked behaviour
MaxBytes == 2

Directions == {"c2s", "s2c"}
DirNew == [recv |-> <<>>, sent |-> <<>>, st |-> "running"]

\* the pair of copies of one connection; open until both streams are dropped
PairNew == [c2s |-> DirNew, s2c |-> DirNew, open |-> TRUE]

\* the source of direction d sends its next byte
SourceSends(p, d) == [p EXCEPT ![d].recv = Append(@, <<d, Len(@) + 1>>)]

\* tokio::io::copy: the next byte read from the source is written to the
\* destination
CopyByte(p, d) == [p EXCEPT ![d].sent = Append(@, p[d].recv[Len(@) + 1])]

\* tokio::try_join!: returns at the first Err, or when both copies are done
try_join(p) ==
    \/ \E d \in Directions : p[d].st = "failed"
    \/ \A d \in Directions : p[d].st = "done"

\* Mutant: the relay waits for both copies unless one of them fails.
select_waits_for_both(p) ==
    \/ \E d \in Directions : p[d].st = "failed"
    \/ \A d \in Directions : p[d].st = "done"

\* tokio::select!: returns when the first copy returns
select(p) == \E d \in Directions : p[d].st # "running"

\* the copy of direction d returns Ok or Err; when the join returns with it
\* (returned), the function returns and both streams are dropped
CopyReturns(p, d, ok) == [p EXCEPT ![d].st = IF ok THEN "done" ELSE "failed"]
Joined(p, returned) == [p EXCEPT !.open = ~returned]

\* a copy can deliver: the pair is open, the copy runs and has a byte read
CanCopy(p, d) == p.open /\ p[d].st = "running" /\ Len(p[d].sent) < Len(p[d].recv)

\* a copy can return: with Ok once its source has closed and every byte is
\* written, with Err at any time
CanReturn(p, d, ok) ==
    p.open /\ p[d].st = "running" /\ (ok => Len(p[d].sent) = Len(p[d].recv))

\* one CONNECT tunnel of the HTTP proxy, direct or through the MITM socket
TnIdle == [kind |-> "none", pc |-> "none", pair |-> PairNew, result |-> "none"]

IdleTunnel == tn = TnIdle

\* handle_connect / handle_connect_mitm: the task that upgrades the
\* connection and calls tunnel or tunnel_via_mitm
TnSpawn(kind) ==
    /\ tn.pc \in {"none", "closed"}
    /\ tn' = [TnIdle EXCEPT !.kind = kind, !.pc = "connecting"]

\* tunnel: TcpStream::connect; tunnel_via_mitm: connect, CONNECT and the
\* 200 of the MITM proxy; on failure the upgraded connection is dropped
TnConnect(ok) ==
    /\ tn.pc = "connecting"
    /\ tn' = IF ok THEN [tn EXCEPT !.pc = "copying"]
             ELSE [tn EXCEPT !.pc = "closed", !.pair.open = FALSE, !.result = "Err"]

\* the client or the server sends a byte
TnSend(d) ==
    /\ tn.pc = "copying"
    /\ tn.pair.open
    /\ tn.pair[d].st = "running"
    /\ Len(tn.pair[d].recv) < MaxBytes
    /\ tn' = [tn EXCEPT !.pair = SourceSends(@, d)]

\* one of the two copies writes a byte
TnCopy(d) ==
    /\ tn.pc = "copying"
    /\ CanCopy(tn.pair, d)
    /\ tn' = [tn EXCEPT !.pair = CopyByte(@, d)]

\* one of the two copies returns; `tokio::try_join!(..)?` returns with it or
\* keeps waiting for the other copy
TnCopyReturns(d, ok) ==
    /\ tn.pc = "copying"
    /\ CanReturn(tn.pair, d, ok)
    /\ LET q == CopyReturns(tn.pair, d, ok)
           p == Joined(q, try_join(q))
       IN  tn' = [tn EXCEPT !.pair = p,
                            !.pc = IF p.open THEN "copying" ELSE "closed",
                            !.result = IF p.open THEN "none" ELSE IF ok THEN "Ok" ELSE "Err"]

NextTunnelOps ==
    \/ \E kind \in {"tunnel", "tunnel_via_mitm"} : TnSpawn(kind)
    \/ \E ok \in BOOLEAN : TnConnect(ok)
    \/ \E d \in Directions : TnSend(d)
    \/ \E d \in Directions : TnCopy(d)
    \/ \E d \in Directions, ok \in BOOLEAN : TnCopyReturns(d, ok)

----------------------------------------------------------------------------
(* proxy/socks5.rs: handle_client, one SOCKS5 connection from the greeting
   to the close *)

SOCKS_VERSION == 5
AUTH_NONE == 0
NO_ACCEPTABLE_METHODS == 255
CMD_CONNECT == 1
ATYP_IPV4 == 1
ATYP_DOMAIN == 3
ATYP_IPV6 == 4
REP_GENERAL_FAILURE == 1

\* a byte of a domain name that is not valid UTF-8, and what
\* String::from_utf8_lossy puts in its place
BadByte == "0xFF"
REPLACEMENT_CHARACTER == "U+FFFD"
from_utf8_lossy(bytes) ==
    [i \in 1..Len(bytes) |-> IF bytes[i] = BadByte THEN REPLACEMENT_CHARACTER ELSE bytes[i]]

\* format!("{}", n) and format!("{:x}", n)
Digit(d) == <<SubSeq(<<"0","1","2","3","4","5","6","7","8","9","a","b","c","d","e","f">>, d + 1, d + 1)[1]>>
RECURSIVE Radix(_, _)
Radix(n, base) == IF n < base THEN Digit(n) ELSE Radix(n \div base, base) \o Digit(n % base)

\* items joined with a separator
RECURSIVE Join(_, _)
Join(items, sep) ==
    IF items = <<>> THEN <<>>
    ELSE IF Len(items) = 1 THEN items[1]
    ELSE items[1] \o sep \o Join(Tail(items), sep)

\* handle_client: the host string of each address type
Ipv4Host(addr) == Join([i \in 1..4 |-> Radix(addr[i], 10)], <<".">>)
Ipv6Host(addr) ==
    Join([i \in 1..8 |-> Radix(addr[2 * i - 1] * 256 + addr[2 * i], 16)], <<":">>)
DestinationHost(atyp, addr) ==
    CASE atyp = ATYP_IPV4 -> Ipv4Host(addr)
      [] atyp = ATYP_DOMAIN -> from_utf8_lossy(addr)
      [] atyp = ATYP_IPV6 -> Ipv6Host(addr)

\* the parts of a text between the separators
RECURSIVE Split(_, _)
Split(text, sep) ==
    LET hits == {i \in 1..Len(text) : text[i] = sep}
        j == IF hits = {} THEN Len(text) + 1 ELSE CHOOSE i \in hits : \A k \in hits : i <= k
    IN  IF hits = {} THEN <<text>>
        ELSE <<SubSeq(text, 1, j - 1)>> \o Split(SubSeq(text, j + 1, Len(text)), sep)

\* the number a text of digits stands for in the base, -1 for any other text
RECURSIVE ParseRadix(_, _)
ParseRadix(digits, base) ==
    LET last == digits[Len(digits)]
        value == IF \E d \in 0..(base - 1) : Digit(d) = <<last>>
                 THEN CHOOSE d \in 0..(base - 1) : Digit(d) = <<last>> ELSE 0 - 1
        front == IF Len(digits) = 1 THEN 0 ELSE ParseRadix(SubSeq(digits, 1, Len(digits) - 1), base)
    IN  IF digits = <<>> \/ value < 0 \/ front < 0 THEN 0 - 1 ELSE front * base + value

\* str::parse::<Ipv4Addr>: four decimal numbers up to 255 without leading
\* zeros, separated by '.'
parse_ipv4(addr) ==
    LET parts == Split(addr, ".")
        octets == [i \in 1..Len(parts) |-> ParseRadix(parts[i], 10)]
    IN  IF /\ Len(parts) = 4
           /\ \A i \in 1..4 : /\ Len(parts[i]) \in 1..3
                              /\ octets[i] \in 0..255
                              /\ Len(parts[i]) > 1 => parts[i][1] # "0"
        THEN Some(octets) ELSE None

\* str::parse::<Ipv6Addr> for the texts Ipv6Host writes: eight groups of up
\* to four hexadecimal digits separated by ':'
parse_ipv6(addr) ==
    LET parts == Split(addr, ":")
        groups == [i \in 1..Len(parts) |-> ParseRadix(parts[i], 16)]
    IN  IF /\ Len(parts) = 8
           /\ \A i \in 1..8 : Len(parts[i]) \in 1..4 /\ groups[i] >= 0
        THEN Some([i \in 1..16 |-> IF i % 2 = 1 THEN groups[(i + 1) \div 2] \div 256
                                    ELSE groups[i \div 2] % 256])
        ELSE None

\* send_reply: VER, REP, RSV, then ATYP and the address as the text parses,
\* and the port in network byte order
send_reply(rep, addr, port) ==
    LET ipv4 == parse_ipv4(addr)
        ipv6 == parse_ipv6(addr)
    IN  [ver |-> SOCKS_VERSION, rep |-> rep,
         atyp |-> IF IsSome(ipv4) THEN ATYP_IPV4 ELSE IF IsSome(ipv6) THEN ATYP_IPV6 ELSE ATYP_DOMAIN,
         addr |-> IF IsSome(ipv4) THEN Unwrap(ipv4) ELSE IF IsSome(ipv6) THEN Unwrap(ipv6)
                  ELSE <<Len(addr) % 256>> \o addr,
         port |-> <<port \div 256, port % 256>>]

\* "0.0.0.0"
Unspecified == <<"0", ".", "0", ".", "0", ".", "0">>

\* no connection
SkIdle ==
    [pc |-> "none", filter |-> from_config(NetDefault), request |-> None,
     host |-> <<>>, decision |-> "none", selection |-> None, replies |-> <<>>,
     upstream |-> None, greeting |-> None, local |-> None, pair |-> PairNew,
     result |-> "none"]

\* the accept loop spawns handle_client with a clone of the proxy's filter
SocksAccept(filter) ==
    /\ sk.pc \in {"none", "closed"}
    /\ sk' = [SkIdle EXCEPT !.pc = "greeting", !.filter = filter]

\* handle_client: the greeting (VER, NMETHODS, METHODS) and the method
\* selection
SocksGreeting(ver, methods) ==
    /\ sk.pc = "greeting"
    /\ LET g == [sk EXCEPT !.greeting = Some([ver |-> ver, methods |-> methods])]
       IN  sk' =
             IF ver # SOCKS_VERSION
             THEN [g EXCEPT !.pc = "closed", !.result = "Err"]
             ELSE IF AUTH_NONE \notin methods
             THEN [g EXCEPT !.selection = Some(<<SOCKS_VERSION, NO_ACCEPTABLE_METHODS>>),
                            !.pc = "closed", !.result = "Err"]
             ELSE [g EXCEPT !.selection = Some(<<SOCKS_VERSION, AUTH_NONE>>),
                            !.pc = "request"]

\* handle_client: the request (VER, CMD, RSV, ATYP, DST.ADDR, DST.PORT) up to
\* the filter check
SocksRequest(ver, cmd, atyp, addr, port) ==
    /\ sk.pc = "request"
    /\ LET r == [sk EXCEPT !.request =
                    Some([ver |-> ver, cmd |-> cmd, atyp |-> atyp, addr |-> addr, port |-> port])]
       IN  sk' =
             IF ver # SOCKS_VERSION
             THEN [r EXCEPT !.pc = "closed", !.result = "Err"]
             ELSE IF cmd # CMD_CONNECT
             THEN [r EXCEPT !.replies = Append(@, send_reply(REP_GENERAL_FAILURE, Unspecified, 0)),
                            !.pc = "closed", !.result = "Err"]
             ELSE IF atyp \notin {ATYP_IPV4, ATYP_DOMAIN, ATYP_IPV6}
             THEN [r EXCEPT !.replies = Append(@, send_reply(REP_GENERAL_FAILURE, Unspecified, 0)),
                            !.pc = "closed", !.result = "Err"]
             ELSE LET host == DestinationHost(atyp, addr)
                      decision == check(sk.filter, host, port)
                  IN  IF decision = Deny
                      THEN [r EXCEPT !.host = host, !.decision = decision,
                                     !.replies = Append(@, send_reply(REP_CONNECTION_NOT_ALLOWED,
                                                                  Unspecified, 0)),
                                     !.pc = "closed", !.result = "Ok"]
                      ELSE [r EXCEPT !.host = host, !.decision = decision, !.pc = "connect"]

\* handle_client: TcpStream::connect to the target; on failure REP 0x04 and
\* return; local is the local address of the socket connected
SocksTarget(ok, local) ==
    /\ sk.pc = "connect"
    /\ ok => Connectable(sk.host)
    /\ sk' =
         IF ok
         THEN [sk EXCEPT !.upstream = Some(sk.host), !.local = Some(local), !.pc = "reply"]
         ELSE [sk EXCEPT !.replies = Append(@, send_reply(REP_HOST_UNREACHABLE, Unspecified, 0)),
                         !.pc = "closed", !.result = "Ok"]

\* SocketAddr::ip().to_string()
ip_to_string(local) == IF local.v = 4 THEN Ipv4Host(local.ip) ELSE Ipv6Host(local.ip)

\* handle_client: target.local_addr() and send_reply(REP_SUCCESS, ..); when
\* either fails, `?` returns the error and both streams are dropped
SocksReply(ok) ==
    /\ sk.pc = "reply"
    /\ sk' =
         IF ok
         THEN [sk EXCEPT !.replies = Append(@, send_reply(REP_SUCCESS, ip_to_string(Unwrap(sk.local)),
                                                        Unwrap(sk.local).port)),
                         !.pc = "relay"]
         ELSE [sk EXCEPT !.pc = "closed", !.result = "Err"]

\* the client sends payload once it has sent its request, the target once
\* it is connected
SocksSend(d) ==
    /\ sk.pc \in (IF d = "c2s" THEN {"connect", "reply", "relay"} ELSE {"reply", "relay"})
    /\ sk.pair[d].st = "running"
    /\ Len(sk.pair[d].recv) < MaxBytes
    /\ sk' = [sk EXCEPT !.pair = SourceSends(@, d)]

\* tokio::io::copy, either direction: a byte is written
SocksRelay(d) ==
    /\ sk.pc = "relay"
    /\ CanCopy(sk.pair, d)
    /\ sk' = [sk EXCEPT !.pair = CopyByte(@, d)]

\* one copy returns: the select returns with it, handle_client returns Ok
\* and both streams are dropped
SocksRelayEnd(d, ok) ==
    /\ sk.pc = "relay"
    /\ CanReturn(sk.pair, d, ok)
    /\ LET q == CopyReturns(sk.pair, d, ok)
           p == Joined(q, select(q))
       IN  sk' = [sk EXCEPT !.pair = p,
                            !.pc = IF p.open THEN "relay" ELSE "closed",
                            !.result = IF p.open THEN "none" ELSE "Ok"]

\* the client goes away while the handler waits in read_exact
SocksClientGone ==
    /\ sk.pc \in {"greeting", "request"}
    /\ sk' = [sk EXCEPT !.pc = "closed", !.result = "Err"]

\* the policies of the proxies' filters and what clients send
SocksNets ==
    {NetDefault, CfgMitmA.network,
     [NetDefault EXCEPT !.denied_domains = <<HostB, Ipv4Host(<<10, 0, 0, 1>>)>>]}
SocksVersions == {4, SOCKS_VERSION}
SocksMethodSets == {{AUTH_NONE}, {2}, {AUTH_NONE, 2}}
SocksCommands == {CMD_CONNECT, 2, 3}
SocksAddresses ==
    {<<ATYP_DOMAIN, HostA>>, <<ATYP_DOMAIN, HostB>>, <<ATYP_DOMAIN, <<>>>>,
     <<ATYP_DOMAIN, <<"b", BadByte>>>>,
     <<ATYP_IPV4, <<10, 0, 0, 1>>>>, <<ATYP_IPV4, <<192, 168, 0, 255>>>>,
     <<ATYP_IPV6, [i \in 1..16 |-> IF i = 16 THEN 1 ELSE 0]>>,
     <<2, <<>>>>, <<0, <<>>>>}
SocksPorts == {80, 443}
SocksLocals ==
    {[v |-> 4, ip |-> <<127, 0, 0, 1>>, port |-> 40000],
     [v |-> 4, ip |-> <<10, 0, 200, 255>>, port |-> 1],
     [v |-> 6, ip |-> [i \in 1..16 |-> IF i = 16 THEN 1 ELSE IF i = 1 THEN 254 ELSE 0], port |-> 65535]}

IdleSocks == sk = SkIdle

NextSocksOps ==
    \/ \E n \in SocksNets : SocksAccept(from_config(n))
    \/ \E ver \in SocksVersions, methods \in SocksMethodSets : SocksGreeting(ver, methods)
    \/ \E ver \in SocksVersions, cmd \in SocksCommands, a \in SocksAddresses, port \in SocksPorts :
          SocksRequest(ver, cmd, a[1], a[2], port)
    \/ \E ok \in BOOLEAN, local \in SocksLocals : SocksTarget(ok, local)
    \/ \E ok \in BOOLEAN : SocksReply(ok)
    \/ \E d \in Directions : SocksSend(d)
    \/ \E d \in Directions : SocksRelay(d)
    \/ \E d \in Directions, ok \in BOOLEAN : SocksRelayEnd(d, ok)
    \/ SocksClientGone

----------------------------------------------------------------------------
(* proxy/http.rs: handle_connect, handle_connect_mitm and tunnel_via_mitm,
   one CONNECT request followed into the MITM proxy's Unix socket *)

\* str::contains for a substring
str_contains(s, sub) ==
    \E i \in 0..(Len(s) - Len(sub)) : SubSeq(s, i + 1, i + Len(sub)) = sub

\* format!("CONNECT {}:{} HTTP/1.1\r\nHost: {}:{}\r\n\r\n", host, port, host, port)
connect_req(host, port) ==
    <<"CONNECT ", host, ":", port, " HTTP/1.1\r\nHost: ", host, ":", port, "\r\n\r\n">>

\* Mutant: tunnel_via_mitm splices whatever the MITM proxy answered.
mitm_established_any(response_buf) == TRUE

\* tunnel_via_mitm: the test of the bytes the first read returned
mitm_established(response_buf) ==
    str_contains(from_utf8_lossy(response_buf), <<"2", "0", "0">>)

\* no CONNECT request
MtIdle ==
    [pc |-> "none", filter |-> from_config(NetDefault), mitm_socket_path |-> None,
     host |-> <<>>, port |-> 0, decision |-> "none", status |-> 0,
     upstream |-> None, ipc |-> None, ipcOut |-> <<>>, response |-> None,
     errors |-> <<>>]

\* tracing::debug!("MITM tunnel error: {}", e) and its siblings, then the
\* task ends and the upgraded connection is dropped
MtFailed(m, e) == [m EXCEPT !.errors = Append(@, e), !.pc = "closed"]

\* handle_connect on a proxy built by initialize_proxies from `network`
MtHandleConnect(network, uri_host, uri_port) ==
    /\ mt.pc \in {"none", "closed"}
    /\ LET filter == from_config(network)
           path == IF IsSome(network.mitm_proxy)
                   THEN Some(Unwrap(network.mitm_proxy).socket_path) ELSE None
           host == unwrap_or_default(uri_host)
           port == IF IsSome(uri_port) THEN Unwrap(uri_port) ELSE CONNECT_DEFAULT_PORT
           decision == check(filter, host, port)
           route == connect_route(decision, path)
           m == [MtIdle EXCEPT !.filter = filter, !.mitm_socket_path = path,
                               !.host = host, !.port = port, !.decision = decision]
       IN  mt' = CASE route = "deny" -> [m EXCEPT !.status = FORBIDDEN, !.pc = "closed"]
                   [] route = "mitm" -> [m EXCEPT !.status = OK, !.pc = "mitm_upgrade"]
                   [] OTHER -> [m EXCEPT !.status = OK, !.pc = "upgrade"]

\* the task spawned by handle_connect: hyper::upgrade::on, then tunnel
MtTunnel(outcome) ==
    /\ mt.pc = "upgrade"
    /\ outcome = "ok" => Connectable(mt.host)
    /\ mt' = CASE outcome = "ok" -> [mt EXCEPT !.upstream = Some(mt.host), !.pc = "piping"]
               [] outcome = "upgrade_err" -> MtFailed(mt, "Upgrade error")
               [] OTHER -> MtFailed(mt, "Tunnel error")

\* the task spawned by handle_connect_mitm: hyper::upgrade::on
MtUpgrade(ok) ==
    /\ mt.pc = "mitm_upgrade"
    /\ mt' = IF ok THEN [mt EXCEPT !.pc = "mitm_connect"]
             ELSE MtFailed(mt, "Upgrade error")

\* tunnel_via_mitm: UnixStream::connect(socket_path)
MtConnect(ok) ==
    /\ mt.pc = "mitm_connect"
    /\ mt' = IF ok THEN [mt EXCEPT !.ipc = mt.mitm_socket_path, !.pc = "mitm_send"]
             ELSE MtFailed(mt, "MITM tunnel error")

\* tunnel_via_mitm: write_all of the CONNECT request
MtSend(ok) ==
    /\ mt.pc = "mitm_send"
    /\ mt' = IF ok THEN [mt EXCEPT !.ipcOut = Append(@, connect_req(mt.host, mt.port)),
                                   !.pc = "mitm_read"]
             ELSE MtFailed(mt, "MITM tunnel error")

\* tunnel_via_mitm: one read of up to 1024 bytes (none at end of file) and
\* the test for "200"
MtRead(response_buf) ==
    /\ mt.pc = "mitm_read"
    /\ LET m == [mt EXCEPT !.response = Some(response_buf)]
       IN  mt' = IF mitm_established(response_buf) THEN [m EXCEPT !.pc = "mitm_piping"]
                 ELSE MtFailed(m, "MITM tunnel error")

\* tunnel_via_mitm: the read fails
MtReadErr ==
    /\ mt.pc = "mitm_read"
    /\ mt' = MtFailed(mt, "MITM tunnel error")

\* tokio::io::copy from the client to the MITM socket
MtPipe ==
    /\ mt.pc = "mitm_piping"
    /\ Len(mt.ipcOut) < 2
    /\ mt' = [mt EXCEPT !.ipcOut = Append(@, <<"client bytes">>)]

\* one copy ends: try_join returns and both streams are dropped
MtPipeEnd(ok) ==
    /\ mt.pc \in {"piping", "mitm_piping"}
    /\ mt' = IF ok THEN [mt EXCEPT !.pc = "closed"]
             ELSE MtFailed(mt, IF mt.pc = "piping" THEN "Tunnel error" ELSE "MITM tunnel error")

\* the policies of the proxy, the CONNECT targets and the MITM proxy's answers
MtNets == {NetDefault, CfgMitmA.network, CfgDenyB.network,
           [CfgMitmA.network EXCEPT !.denied_domains = <<HostA>>]}
MtHosts == {None, Some(HostA), Some(HostB)}
MtPorts == {None, Some(80), Some(8443)}
MtResponses ==
    {<<"H", "T", "T", "P", " ", "2", "0", "0", " ", "O", "K">>,
     <<"H", "T", "T", "P", " ", "5", "0", "2">>,
     <<"H", "T", "T", "P", " ", "4", "0", "3", " ", "1", "2", "0", "0">>,
     <<"2", "0">>, <<"2", BadByte, "0", "0">>, <<>>}

IdleMitm == mt = MtIdle

NextMitmOps ==
    \/ \E n \in MtNets, h \in MtHosts, p \in MtPorts : MtHandleConnect(n, h, p)
    \/ \E outcome \in {"ok", "upgrade_err", "connect_err"} : MtTunnel(outcome)
    \/ \E ok \in BOOLEAN : MtUpgrade(ok)
    \/ \E ok \in BOOLEAN : MtConnect(ok)
    \/ \E ok \in BOOLEAN : MtSend(ok)
    \/ \E r \in MtResponses : MtRead(r)
    \/ MtReadErr
    \/ MtPipe
    \/ \E ok \in BOOLEAN : MtPipeEnd(ok)

\* str::find: the position of the first occurrence, 0 when there is none
str_find(s, sub) ==
    LET hits == {i \in 1..(Len(s) - Len(sub) + 1) : SubSeq(s, i, i + Len(sub) - 1) = sub}
    IN  IF hits = {} THEN 0 ELSE CHOOSE i \in hits : \A j \in hits : i <= j

\* char::is_ascii_digit
is_ascii_digit(c) == c \in {"0", "1", "2", "3", "4", "5", "6", "7", "8", "9"}

----------------------------------------------------------------------------
(* sandbox/macos/monitor.rs, sandbox/macos/profile.rs, manager/mod.rs: the
   log tag of a wrapped command, the kernel's trace lines and LogMonitor *)

\* most trace lines the kernel emits in one run
MaxLines == 3

\* the commands given to wrap_with_sandbox, as the UTF-8 bytes of the
\* strings "c1" and "c2"
MonCommands == {<<99, 49>>, <<99, 50>>}

\* the i-th character of the standard base64 alphabet, as its ASCII code:
\* A-Z, a-z, 0-9, '+', '/'
B64Char(i) ==
    CASE i < 26 -> 65 + i
      [] i < 52 -> 97 + (i - 26)
      [] i < 62 -> 48 + (i - 52)
      [] i = 62 -> 43
      [] OTHER -> 47

\* the padding character '='
B64Pad == 61

\* the four characters of one group of one, two or three bytes
B64Group(g) ==
    LET b1 == g[1]
        b2 == IF Len(g) > 1 THEN g[2] ELSE 0
        b3 == IF Len(g) > 2 THEN g[3] ELSE 0
        c1 == B64Char(b1 \div 4)
        c2 == B64Char((b1 % 4) * 16 + b2 \div 16)
        c3 == B64Char((b2 % 16) * 4 + b3 \div 64)
        c4 == B64Char(b3 % 64)
    IN  CASE Len(g) = 1 -> <<c1, c2, B64Pad, B64Pad>>
          [] Len(g) = 2 -> <<c1, c2, c3, B64Pad>>
          [] OTHER -> <<c1, c2, c3, c4>>

\* Mutant: the encoder leaves the padding out.
RECURSIVE base64_encode_no_pad(_)
base64_encode_no_pad(bytes) ==
    IF bytes = <<>> THEN <<>>
    ELSE IF Len(bytes) <= 3 THEN SelectSeq(B64Group(bytes), LAMBDA c : c # B64Pad)
    ELSE B64Group(SubSeq(bytes, 1, 3)) \o base64_encode_no_pad(SubSeq(bytes, 4, Len(bytes)))

\* base64::engine::general_purpose::STANDARD.encode
RECURSIVE base64_encode(_)
base64_encode(bytes) ==
    IF bytes = <<>> THEN <<>>
    ELSE IF Len(bytes) <= 3 THEN B64Group(bytes)
    ELSE B64Group(SubSeq(bytes, 1, 3)) \o base64_encode(SubSeq(bytes, 4, Len(bytes)))

\* the value of a character of the alphabet, -1 for any other character
B64Value(c) ==
    IF \E i \in 0..63 : B64Char(i) = c THEN CHOOSE i \in 0..63 : B64Char(i) = c ELSE 0 - 1

\* the bytes of one group of four characters, None when the group is not a
\* canonical one: a character outside the alphabet, padding anywhere but at
\* the end of the last group, or bits set beyond the last byte
B64Ungroup(g, last) ==
    LET pad == IF g[4] # B64Pad THEN 0 ELSE IF g[3] # B64Pad THEN 1 ELSE 2
        v == [i \in 1..4 |-> IF i > 4 - pad THEN 0 ELSE B64Value(g[i])]
        b1 == v[1] * 4 + v[2] \div 16
        b2 == (v[2] % 16) * 16 + v[3] \div 4
        b3 == (v[3] % 4) * 64 + v[4]
    IN  IF (pad > 0 /\ ~last) \/ (\E i \in 1..4 : v[i] < 0) THEN None
        ELSE CASE pad = 0 -> Some(<<b1, b2, b3>>)
               [] pad = 1 -> IF v[3] % 4 = 0 THEN Some(<<b1, b2>>) ELSE None
               [] OTHER -> IF v[2] % 16 = 0 THEN Some(<<b1>>) ELSE None

\* base64::engine::general_purpose::STANDARD.decode: Some(bytes), or None
\* for its Err
RECURSIVE base64_decode(_)
base64_decode(chars) ==
    IF chars = <<>> THEN Some(<<>>)
    ELSE IF Len(chars) < 4 THEN None
    ELSE LET head == B64Ungroup(SubSeq(chars, 1, 4), Len(chars) = 4)
             tail == base64_decode(SubSeq(chars, 5, Len(chars)))
         IN  IF IsNone(head) \/ IsNone(tail) THEN None
             ELSE Some(Unwrap(head) \o Unwrap(tail))

\* the bytes are well-formed UTF-8 (one- to three-byte forms; the four-byte
\* forms start with a byte of 240 or more)
RECURSIVE valid_utf8(_)
valid_utf8(bytes) ==
    LET cont(i) == i <= Len(bytes) /\ bytes[i] \in 128..191
        rest(n) == valid_utf8(SubSeq(bytes, n + 1, Len(bytes)))
    IN  IF bytes = <<>> THEN TRUE
        ELSE CASE bytes[1] < 128 -> rest(1)
               [] bytes[1] \in 194..223 -> cont(2) /\ rest(2)
               [] bytes[1] = 224 -> cont(2) /\ bytes[2] >= 160 /\ cont(3) /\ rest(3)
               [] bytes[1] \in 225..239 \ {237} -> cont(2) /\ cont(3) /\ rest(3)
               [] bytes[1] = 237 -> cont(2) /\ bytes[2] < 160 /\ cont(3) /\ rest(3)
               [] bytes[1] \in 240..244 ->
                    /\ cont(2) /\ cont(3) /\ cont(4)
                    /\ bytes[1] = 240 => bytes[2] >= 144
                    /\ bytes[1] = 244 => bytes[2] < 144
                    /\ rest(4)
               [] OTHER -> FALSE

\* String::from_utf8(..).ok()
from_utf8(bytes) == IF valid_utf8(bytes) THEN Some(bytes) ELSE None

\* "CMD64_" and "_END_" as bytes
CMD64 == <<67, 77, 68, 54, 52, 95>>
END == <<95, 69, 78, 68, 95>>

\* format!("{:08x}", n): eight lower-case hexadecimal digits
Hex8(n) ==
    [i \in 1..8 |->
        LET d == (n \div (16 ^ (8 - i))) % 16
        IN  IF d < 10 THEN 48 + d ELSE 87 + d]

\* generate_log_tag: CMD64_<base64 of the command>_END_<session suffix>;
\* SESSION_SUFFIX is the text of a number drawn once per process
generate_log_tag(command) == CMD64 \o base64_encode(command) \o END \o Hex8(tgSession)

\* decode_command_from_tag
decode_command_from_tag(tag) ==
    LET start == str_find(tag, CMD64)
        rest == SubSeq(tag, start + 6, Len(tag))
        end == str_find(rest, END)
        encoded == SubSeq(rest, 1, end - 1)
    IN  IF start = 0 \/ end = 0 \/ IsNone(base64_decode(encoded)) THEN None
        ELSE from_utf8(Unwrap(base64_decode(encoded)))

\* longest command of the round trip, in bytes, and the bytes commands are
\* made of: 'A', '_', '>', '?', and the two bytes of U+00E9
MaxCmdLen == 3
CmdBytes == {65, 95, 62, 63, 195, 169}

\* the commands: every string of up to MaxCmdLen bytes, and the two
\* delimiters of the tag themselves
RoundTripCommands ==
    {c \in UNION {[1..n -> CmdBytes] : n \in 0..MaxCmdLen} : valid_utf8(c)}
        \cup {CMD64, END, END \o CMD64}

\* the numbers SESSION_SUFFIX is drawn from
Sessions == {0, 1, 195939070, 2147483647}

IdleTag ==
    /\ tgSession = 0
    /\ tgCommand = <<>>
    /\ tgTag = None
    /\ tgDecoded = None

InitTagInputs ==
    /\ tgSession \in Sessions
    /\ tgCommand \in RoundTripCommands
    /\ tgTag = None
    /\ tgDecoded = None

\* generate_log_tag(command)
GenerateLogTag ==
    /\ tgTag = None
    /\ tgTag' = Some(generate_log_tag(tgCommand))
    /\ UNCHANGED <<tgSession, tgCommand, tgDecoded>>

\* decode_command_from_tag(tag); the result is kept as Some(result)
DecodeCommandFromTag ==
    /\ IsSome(tgTag)
    /\ tgDecoded = None
    /\ tgDecoded' = Some(decode_command_from_tag(Unwrap(tgTag)))
    /\ UNCHANGED <<tgSession, tgCommand, tgTag>>

\* the n-th line the sandbox writes to the system log for a violation of the
\* profile carrying (trace "<tag>")
TraceLine(tag, n) == [text |-> "Sandbox: deny", seq |-> n, tag |-> tag]

\* str::contains(&log_tag) on a log line (a line holds one tag)
line_contains(line, tag) == line.tag = tag

\* no LogMonitor
MonIdle ==
    [helper |-> "none", task |-> "none", log_tag |-> <<>>, command |-> None,
     child |-> None, next |-> 0, chan |-> <<>>, rx |-> "none", received |-> <<>>,
     stopped |-> FALSE]

\* wrap_with_sandbox on macOS: wrap_command is called with the log monitor
\* enabled, the profile carries (trace "<tag>"), and the returned log tag is
\* dropped (`_log_tag`): no LogMonitor is started
MonWrap(command) ==
    /\ lgManager = "initialized"
    /\ lgWrapped' = lgWrapped \cup {command}
    /\ UNCHANGED <<lgManager, lgLines, lgMon, varsStore>>

\* a wrapped command violates its profile: the kernel emits a trace line
\* holding the command's tag
KernelTrace(command) ==
    /\ command \in lgWrapped
    /\ Len(lgLines) < MaxLines
    /\ lgLines' = Append(lgLines, TraceLine(generate_log_tag(command), Len(lgLines) + 1))
    /\ UNCHANGED <<lgManager, lgWrapped, lgMon, varsStore>>

\* LogMonitor::start, called by a user of the crate: `log stream` is
\* spawned with the tag as predicate, the child is moved out of the struct
\* into the reader task, and the receiver is handed to the caller
LogMonitor_start(command) ==
    /\ lgMon.helper = "none"
    /\ lgMon' = [MonIdle EXCEPT
            !.helper = "running", !.task = "running",
            !.log_tag = generate_log_tag(Unwrap(command)), !.command = command,
            !.child = None, !.next = Len(lgLines) + 1, !.rx = "held"]
    /\ UNCHANGED <<lgManager, lgWrapped, lgLines, varsStore>>

\* the reader task: next_line returns the next line of the helper; a line
\* with the tag becomes an event sent to the channel, and a send to a
\* dropped receiver ends the loop and kills the helper
MonitorNextLine ==
    /\ lgMon.task = "running"
    /\ lgMon.helper = "running"
    /\ lgMon.next <= Len(lgLines)
    /\ LET line == lgLines[lgMon.next]
           event == SandboxViolationEvent_with_command(line, lgMon.command,
                                                       Some(lgMon.log_tag))
       IN  lgMon' =
             IF ~line_contains(line, lgMon.log_tag)
             THEN [lgMon EXCEPT !.next = @ + 1]
             ELSE IF lgMon.rx = "dropped"
             THEN [lgMon EXCEPT !.next = @ + 1, !.task = "ended", !.helper = "killed"]
             ELSE [lgMon EXCEPT !.next = @ + 1, !.chan = Append(@, event)]
    /\ UNCHANGED <<lgManager, lgWrapped, lgLines, varsStore>>

\* the helper exits by itself
HelperExit ==
    /\ lgMon.helper = "running"
    /\ lgMon' = [lgMon EXCEPT !.helper = "exited"]
    /\ UNCHANGED <<lgManager, lgWrapped, lgLines, varsStore>>

\* the reader task: next_line returns Ok(None), the loop ends and the task
\* returns
MonitorEof ==
    /\ lgMon.task = "running"
    /\ lgMon.helper = "exited"
    /\ lgMon' = [lgMon EXCEPT !.task = "ended"]
    /\ UNCHANGED <<lgManager, lgWrapped, lgLines, varsStore>>

\* the caller of LogMonitor::start takes an event from the receiver
MonitorRecv ==
    /\ lgMon.rx = "held"
    /\ lgMon.chan # <<>>
    /\ lgMon' = [lgMon EXCEPT !.received = Append(@, Head(lgMon.chan)), !.chan = Tail(@)]
    /\ UNCHANGED <<lgManager, lgWrapped, lgLines, varsStore>>

\* the caller drops the receiver
MonitorDropReceiver ==
    /\ lgMon.rx = "held"
    /\ lgMon' = [lgMon EXCEPT !.rx = "dropped", !.chan = <<>>]
    /\ UNCHANGED <<lgManager, lgWrapped, lgLines, varsStore>>

\* LogMonitor::stop and Drop: `self.child` is None since start took it, so
\* no process is killed
LogMonitor_stop ==
    /\ lgMon.helper # "none"
    /\ ~lgMon.stopped
    /\ lgMon' = [lgMon EXCEPT
            !.stopped = TRUE,
            !.helper = IF IsSome(lgMon.child) /\ @ = "running" THEN "killed" ELSE @]
    /\ UNCHANGED <<lgManager, lgWrapped, lgLines, varsStore>>

\* reset: clears the manager state; it holds no LogMonitor to stop and
\* leaves the violation store as it is
MonReset ==
    /\ lgManager = "initialized"
    /\ lgManager' = "reset"
    /\ UNCHANGED <<lgWrapped, lgLines, lgMon, varsStore>>

IdleMon ==
    /\ lgManager = "initialized"
    /\ lgWrapped = {}
    /\ lgLines = <<>>
    /\ lgMon = MonIdle

NextMonOps ==
    \/ \E c \in MonCommands : MonWrap(c)
    \/ \E c \in MonCommands : KernelTrace(c)
    \/ \E c \in MonCommands : LogMonitor_start(Some(c))
    \/ MonitorNextLine
    \/ HelperExit
    \/ MonitorEof
    \/ MonitorRecv
    \/ MonitorDropReceiver
    \/ LogMonitor_stop
    \/ MonReset

----------------------------------------------------------------------------
(* sandbox/linux/bwrap.rs: build_inner_command, generate_proxy_env_string;
   sandbox/macos/wrapper.rs: wrap_command.  The command line the sandboxee's
   shell is given, as a sequence of shell tokens. *)

\* a shell token: an operator (";", "&"), a word, an assignment name=value
\* whose value is a text followed by a port, a socat bridge, or the user
\* command as one quoted word
Tok(k, a, v, n) == [k |-> k, a |-> a, v |-> v, n |-> n]
Op(o) == Tok("op", o, "", 0)
Word(w) == Tok("word", w, "", 0)
Assign(name, text, port) == Tok("assign", name, text, port)

\* parts.join(" ; ")
RECURSIVE JoinParts(_)
JoinParts(parts) ==
    IF parts = <<>> THEN <<>>
    ELSE IF Len(parts) = 1 THEN parts[1]
    ELSE parts[1] \o <<Op(";")>> \o JoinParts(Tail(parts))

\* SocatBridge::tcp_to_unix_command
tcp_to_unix_command(tcp_port, socket_path) == Tok("socat", socket_path, "TCP-LISTEN", tcp_port)

\* generate_proxy_env_string: "export a='..' b='..' ... ;"
generate_proxy_env_string(http_port, socks_port) ==
    <<Word("export"),
      Assign("http_proxy", "http://localhost:", http_port),
      Assign("https_proxy", "http://localhost:", http_port),
      Assign("HTTP_PROXY", "http://localhost:", http_port),
      Assign("HTTPS_PROXY", "http://localhost:", http_port),
      Assign("ALL_PROXY", "socks5://localhost:", socks_port),
      Assign("all_proxy", "socks5://localhost:", socks_port),
      Op(";")>>

\* the user command run by the shell: <shell> -c <quoted command>
ShellRun(shell, command) == <<Word(shell), Word("-c"), Tok("command", command, "", 0)>>

\* build_inner_command; seccomp tells whether the BPF filter and the
\* apply-seccomp binary were both found
build_inner_command(command, allow_all_unix_sockets, seccomp, http_socket_path, socks_socket_path, http_proxy_port, socks_proxy_port, shell) ==
    LET bridges ==
            (IF IsSome(http_socket_path)
             THEN <<<<tcp_to_unix_command(http_proxy_port, Unwrap(http_socket_path)), Op("&")>>>>
             ELSE <<>>)
            \o (IF IsSome(socks_socket_path)
                THEN <<<<tcp_to_unix_command(socks_proxy_port, Unwrap(socks_socket_path)), Op("&")>>>>
                ELSE <<>>)
        delay == IF IsSome(http_socket_path) \/ IsSome(socks_socket_path)
                 THEN <<<<Word("sleep 0.1")>>>> ELSE <<>>
        env_vars == generate_proxy_env_string(http_proxy_port, socks_proxy_port)
        run == IF ~unwrap_or_false(allow_all_unix_sockets) /\ seccomp
               THEN <<env_vars,
                      <<Word("apply-seccomp"), Word("unix-block.bpf")>> \o ShellRun(shell, command)>>
               ELSE <<env_vars \o ShellRun(shell, command)>>
    IN  JoinParts(bridges \o delay \o run)

\* wrap_command on macOS: sandbox-exec -f <profile> <shell> -c <command>; what
\* the sandboxee's side of it is
wrap_command(command, shell) == ShellRun(shell, command)

\* the default ports of wrap_with_sandbox on Linux
DEFAULT_HTTP_PORT == 3128
DEFAULT_SOCKS_PORT == 1080
unwrap_or(o, d) == IF IsSome(o) THEN Unwrap(o) ELSE d

\* wrap_with_sandbox after the snapshot: the command line for the platform
WrapInner(in) ==
    IF in.platform = "macos" THEN wrap_command(in.command, in.shell)
    ELSE build_inner_command(in.command, in.allow_all_unix_sockets, in.seccomp,
                             in.http_socket, in.socks_socket,
                             unwrap_or(in.http_port, DEFAULT_HTTP_PORT),
                             unwrap_or(in.socks_port, DEFAULT_SOCKS_PORT), in.shell)

\* the snapshots wrap_with_sandbox can take of an initialized manager, and
\* the rest of its inputs
WrapInputs ==
    [platform : {"macos", "linux"}, command : {"echo hi"}, shell : {"/bin/bash", "/bin/zsh"},
     http_port : {Some(1), Some(2)}, socks_port : {Some(3), Some(4)},
     http_socket : {None, Some("http.sock")}, socks_socket : {None, Some("socks.sock")},
     allow_all_unix_sockets : {None, Some(TRUE), Some(FALSE)}, seccomp : BOOLEAN]

IdleWrapEnv ==
    /\ weIn = CHOOSE in \in WrapInputs : in.platform = "macos"
    /\ weOut = <<>>
    /\ weDone = TRUE

InitWrapEnvInputs ==
    /\ weIn \in {in \in WrapInputs :
                    in.platform = "macos" =>
                        (in.http_socket = None /\ in.socks_socket = None /\ ~in.seccomp
                         /\ in.allow_all_unix_sockets = None)}
    /\ weOut = <<>>
    /\ weDone = FALSE

WrapEnv ==
    /\ ~weDone
    /\ weOut' = WrapInner(weIn)
    /\ weDone' = TRUE
    /\ UNCHANGED weIn

----------------------------------------------------------------------------
(* utils/platform.rs, sandbox/mod.rs, manager/mod.rs: what initialize checks
   of the host before it starts the proxies *)

\* parse_wsl_version_from_string
parse_wsl_version_from_string(proc_version) ==
    LET proc_lower == to_lowercase(proc_version)
        pos == str_find(proc_lower, <<"w", "s", "l">>)
    IN  IF pos > 0 /\ pos + 3 <= Len(proc_lower) /\ is_ascii_digit(proc_lower[pos + 3])
        THEN Some(proc_lower[pos + 3])
        ELSE IF str_contains(proc_lower, <<"m", "i", "c", "r", "o", "s", "o", "f", "t">>)
        THEN Some("1")
        ELSE None

\* get_wsl_version: None off Linux and when /proc/version cannot be read
get_wsl_version(host) ==
    IF host.target # "linux" \/ IsNone(host.proc_version) THEN None
    ELSE parse_wsl_version_from_string(Unwrap(host.proc_version))

\* Platform::current
Platform_current(host) ==
    IF host.target \in {"macos", "linux"} THEN Some(host.target) ELSE None

\* Platform::is_supported
is_supported(host) ==
    CASE Platform_current(host) = Some("linux") -> get_wsl_version(host) # Some("1")
      [] Platform_current(host) = Some("macos") -> TRUE
      [] OTHER -> FALSE

\* sandbox::check_dependencies: on Linux bwrap and socat must run
check_dependencies(host) ==
    IF Unwrap(Platform_current(host)) = "linux" /\ ~(host.bwrap /\ host.socat)
    THEN "MissingDependency" ELSE "Ok"

\* initialize up to the call of initialize_proxies: validate, then
\* check_dependencies, which looks the platform up and checks the tools
initialize_checks(host, config) ==
    IF ~validate(config) THEN "InvalidDomainPattern"
    ELSE IF IsNone(Platform_current(host)) THEN "UnsupportedPlatform"
    ELSE check_dependencies(host)

\* the /proc/version texts of the hosts: WSL1, WSL2, WSL1 named so, native
\* Linux, "wsl" at the end of the text, and a text whose first "wsl" has no
\* digit after it
ProcVersions ==
    {<<"4", "-", "M", "i", "c", "r", "o", "s", "o", "f", "t">>,
     <<"m", "i", "c", "r", "o", "s", "o", "f", "t", "-", "W", "S", "L", "2">>,
     <<"W", "S", "L", "1">>,
     <<"6", "-", "g", "e", "n", "e", "r", "i", "c">>,
     <<"w", "s", "l">>,
     <<"w", "s", "l", "-", "M", "i", "c", "r", "o", "s", "o", "f", "t", "-", "W", "S", "L", "2">>,
     <<>>}

Hosts ==
    [target : {"macos", "linux", "other"},
     proc_version : {None} \cup {Some(v) : v \in ProcVersions},
     bwrap : BOOLEAN, socat : BOOLEAN]

IdleHost ==
    /\ hHost = [target |-> "macos", proc_version |-> None, bwrap |-> FALSE, socat |-> FALSE]
    /\ hConfig = CfgOpen
    /\ hResult = "none"
    /\ hProxies = 0

InitHostInputs ==
    /\ hHost \in Hosts
    /\ hConfig \in {CfgOpen, CfgBad}
    /\ hResult = "none"
    /\ hProxies = 0

\* initialize on the host: the checks, and initialize_proxies (which starts
\* the two proxies) when they pass
InitializeOnHost ==
    /\ hResult = "none"
    /\ hResult' = initialize_checks(hHost, hConfig)
    /\ hProxies' = IF initialize_checks(hHost, hConfig) = "Ok" THEN 2 ELSE 0
    /\ UNCHANGED <<hHost, hConfig>>

----------------------------------------------------------------------------
(* sandbox/macos/glob.rs: glob_to_seatbelt_regex, and the matching of the
   regex it produces *)

\* the position of the first c in chars at or after i, Len(chars) + 1 when
\* there is none
IndexFrom(chars, i, c) ==
    LET hits == {j \in i..Len(chars) : chars[j] = c}
    IN  IF hits = {} THEN Len(chars) + 1 ELSE CHOOSE j \in hits : \A k \in hits : j <= k

\* the characters glob_to_seatbelt_regex escapes
EscapedChars == {".", "^", "$", "+", "|", "\\", "(", ")"}

\* the loop of glob_to_seatbelt_regex from position i on
RECURSIVE GlobLoop(_, _)
GlobLoop(chars, i) ==
    IF i > Len(chars) THEN <<>>
    ELSE LET c == chars[i]
         IN  CASE c \in EscapedChars -> <<"\\", c>> \o GlobLoop(chars, i + 1)
               [] c = "[" ->
                    LET j == IndexFrom(chars, i + 1, "]")
                    IN  <<"[">> \o SubSeq(chars, i + 1, j - 1)
                            \o (IF j <= Len(chars) THEN <<"]">> ELSE <<>>)
                            \o GlobLoop(chars, j + 1)
               [] c = "{" ->
                    LET j == IndexFrom(chars, i + 1, "}")
                    IN  <<"(">>
                            \o [k \in 1..(j - 1 - i) |->
                                    IF chars[i + k] = "," THEN "|" ELSE chars[i + k]]
                            \o <<")">> \o GlobLoop(chars, j + 1)
               [] c = "*" ->
                    IF i + 1 <= Len(chars) /\ chars[i + 1] = "*"
                    THEN IF i + 2 <= Len(chars) /\ chars[i + 2] = "/"
                         THEN <<"(", ".", "*", "/", ")", "?">> \o GlobLoop(chars, i + 3)
                         ELSE <<".", "*">> \o GlobLoop(chars, i + 2)
                    ELSE <<"[", "^", "/", "]", "*">> \o GlobLoop(chars, i + 1)
               [] c = "?" -> <<"[", "^", "/", "]">> \o GlobLoop(chars, i + 1)
               [] OTHER -> <<c>> \o GlobLoop(chars, i + 1)

\* glob_to_seatbelt_regex
glob_to_seatbelt_regex(pattern) == <<"^">> \o GlobLoop(pattern, 1) \o <<"$">>

(* Regex::is_match on the text of a regex.  A parse of the regex from
   position i carries the set S of the numbers of characters of the path
   consumed so far and returns the position after the part parsed, the
   numbers consumed after it, and whether the part is valid syntax. *)
ReResult(pos, ends, ok) == [pos |-> pos, ends |-> ends, ok |-> ok]

\* the positions of S after one more character of the path that is in the
\* given set, or outside it when negated
ReStepChar(S, p, set, negated) ==
    {n + 1 : n \in {m \in S : m < Len(p) /\ ((p[m + 1] \in set) # negated)}}

RECURSIVE ReAlt(_, _, _, _), ReAltMore(_, _, _, _, _), ReConcat(_, _, _, _), RePiece(_, _, _, _), ReAtom(_, _, _, _), ReStar(_, _, _, _)

\* one atom: a group, a class, an escaped character, '.', an anchor or a
\* literal; a repetition operator or '{' without an expression before it is
\* a syntax error, and so are an unclosed group or class and "(?"
ReAtom(r, i, S, p) ==
    LET c == r[i]
    IN  CASE c = "(" ->
               IF i + 1 <= Len(r) /\ r[i + 1] = "?" THEN ReResult(i, {}, FALSE)
               ELSE LET Close(g) ==
                            IF g.ok /\ g.pos <= Len(r) /\ r[g.pos] = ")"
                            THEN ReResult(g.pos + 1, g.ends, TRUE)
                            ELSE ReResult(g.pos, {}, FALSE)
                    IN  Close(ReAlt(r, i + 1, S, p))
          [] c = "[" ->
               LET negated == i + 1 <= Len(r) /\ r[i + 1] = "^"
                   first == IF negated THEN i + 2 ELSE i + 1
                   j == IndexFrom(r, first + 1, "]")
               IN  IF j > Len(r) THEN ReResult(i, {}, FALSE)
                   ELSE ReResult(j + 1, ReStepChar(S, p, Range(SubSeq(r, first, j - 1)), negated), TRUE)
          [] c = "\\" ->
               IF i + 1 <= Len(r) /\ r[i + 1] \in EscapedChars \cup {"*", "?", "[", "]", "{", "}"}
               THEN ReResult(i + 2, ReStepChar(S, p, {r[i + 1]}, FALSE), TRUE)
               ELSE ReResult(i, {}, FALSE)
          [] c = "." -> ReResult(i + 1, ReStepChar(S, p, {"\n"}, TRUE), TRUE)
          [] c = "^" -> ReResult(i + 1, S \cap {0}, TRUE)
          [] c = "$" -> ReResult(i + 1, S \cap {Len(p)}, TRUE)
          [] c \in {"*", "?", "+", "{"} -> ReResult(i, {}, FALSE)
          [] OTHER -> ReResult(i + 1, ReStepChar(S, p, {c}, FALSE), TRUE)

\* zero or more repetitions of the atom at i
ReStar(r, i, S, p) ==
    LET Again(ends) == IF ends \subseteq S THEN S ELSE ReStar(r, i, S \cup ends, p)
    IN  Again(ReAtom(r, i, S, p).ends)

\* an atom and the repetition operators after it
RePiece(r, i, S, p) ==
    LET Repeat(a) ==
            LET ops == {j \in a.pos..Len(r) : \A k \in a.pos..j : r[k] \in {"*", "?", "+"}}
                after == a.pos + Cardinality(ops)
                kinds == {r[j] : j \in ops}
            IN  IF ~a.ok THEN a
                ELSE CASE kinds = {} -> a
                       [] kinds = {"?"} -> ReResult(after, S \cup a.ends, TRUE)
                       [] OTHER ->
                            ReResult(after, ReStar(r, i, IF kinds = {"+"} THEN a.ends ELSE S, p), TRUE)
    IN  Repeat(ReAtom(r, i, S, p))

\* pieces up to '|', ')' or the end of the regex
ReConcat(r, i, S, p) ==
    IF i > Len(r) \/ r[i] \in {"|", ")"} THEN ReResult(i, S, TRUE)
    ELSE LET Rest(piece) == IF ~piece.ok THEN piece ELSE ReConcat(r, piece.pos, piece.ends, p)
         IN  Rest(RePiece(r, i, S, p))

\* the alternatives after the first one
ReAltMore(r, i, S, p, ends) ==
    IF i > Len(r) \/ r[i] # "|" THEN ReResult(i, ends, TRUE)
    ELSE LET More(alt) ==
                 IF ~alt.ok THEN alt ELSE ReAltMore(r, alt.pos, S, p, ends \cup alt.ends)
         IN  More(ReConcat(r, i + 1, S, p))

\* alternatives separated by '|'
ReAlt(r, i, S, p) ==
    LET More(alt) == IF ~alt.ok THEN alt ELSE ReAltMore(r, alt.pos, S, p, alt.ends)
    IN  More(ReConcat(r, i, S, p))

\* Regex::new(regex) and is_match(path): "invalid" when the regex is no
\* valid syntax, else whether some part of the path matches
is_match(regex, path) ==
    LET Verdict(whole) ==
            IF ~whole.ok \/ whole.pos <= Len(regex) THEN "invalid"
            ELSE IF whole.ends # {} THEN "match" ELSE "no_match"
    IN  Verdict(ReAlt(regex, 1, 0..Len(path), path))

\* longest glob and longest path drawn, and their characters
MaxGlobLen == 3
MaxPathLen == 3
GlobChars == {"a", ".", "/", "*", "?", "{", ",", "}"}
PathChars == {"a", "b", ".", "/"}

\* the globs: every text of up to MaxGlobLen characters, the globs of the
\* tests of glob.rs over one-letter names, and a class
Globs ==
    UNION {[1..n -> GlobChars] : n \in 0..MaxGlobLen}
        \cup {<<"*", ".", "{", "a", ",", "b", "}">>, <<"*", "*", "/", "*", ".", "a">>,
              <<"a", "/", "*", "*">>, <<"a", "?", ".", "a">>, <<"a", "{", ".", "a", ",", ".", "b", "}">>,
              <<"[", "a", "b", "]">>, <<"[", "a">>, <<"a", "+", "(", "b", ")", "|", "$", "^", "\\">>}

Paths ==
    UNION {[1..n -> PathChars] : n \in 0..MaxPathLen}
        \cup {<<"a", "/", "b", "/", "b", ".", "a">>, <<"a", "b", ".", "a">>,
              <<"a", "+", "(", "b", ")", "|", "$", "^", "\\">>}

IdleGlob ==
    /\ gbPattern = <<>>
    /\ gbRegex = None
    /\ gbPath = None
    /\ gbResult = "none"

InitGlobInputs ==
    /\ gbPattern \in Globs
    /\ gbRegex = None
    /\ gbPath = None
    /\ gbResult = "none"

\* glob_to_seatbelt_regex(pattern)
GlobToSeatbeltRegex ==
    /\ gbRegex = None
    /\ gbRegex' = Some(glob_to_seatbelt_regex(gbPattern))
    /\ UNCHANGED <<gbPattern, gbPath, gbResult>>

\* the regex is matched against a path
RegexIsMatch(path) ==
    /\ IsSome(gbRegex)
    /\ gbResult = "none"
    /\ gbPath' = Some(path)
    /\ gbResult' = is_match(Unwrap(gbRegex), path)
    /\ UNCHANGED <<gbPattern, gbRegex>>

NextGlobOps ==
    \/ GlobToSeatbeltRegex
    \/ \E path \in Paths : RegexIsMatch(path)

----------------------------------------------------------------------------
(* violation/store.rs: add_violation calls running concurrently with each
   other and with subscribe, each call split at the points where it takes
   and releases the locks of the store *)

\* most add_violation calls and most listeners in a checked behaviour
MaxCalls == 3
MaxSubscribers == 2

\* the calls, and the line of the event each call adds
Calls == 1..MaxCalls
LineOfCall(c) == <<"v", c>>

\* the events a store holds before the calls: none, one below the capacity,
\* or as many as the capacity
EarlierStores ==
    {[i \in 1..n |-> SandboxViolationEvent_new(<<"old", i>>)] :
        n \in {0, MAX_VIOLATIONS - 1, MAX_VIOLATIONS}}

IdleNotify ==
    /\ nViolations = <<>>
    /\ nTotal = 0
    /\ nListeners = 0
    /\ nCall = [c \in Calls |-> [pc |-> "idle", next |-> 0, registered |-> 0]]
    /\ nHeard = [l \in 1..MaxSubscribers |-> <<>>]

InitNotifyInputs ==
    /\ nViolations \in EarlierStores
    /\ nTotal = Len(nViolations)
    /\ nListeners = 0
    /\ nCall = [c \in Calls |-> [pc |-> "idle", next |-> 0, registered |-> 0]]
    /\ nHeard = [l \in 1..MaxSubscribers |-> <<>>]

\* subscribe: listeners.write() waits until no add_violation call holds the
\* read lock
NotifySubscribe ==
    /\ nListeners < MaxSubscribers
    /\ \A c \in Calls : nCall[c].pc # "notifying"
    /\ nListeners' = nListeners + 1
    /\ UNCHANGED <<nViolations, nTotal, nCall, nHeard>>

\* add_violation: `let listeners = self.listeners.read()`; the read lock is
\* shared between the calls
AddViolationBegin(c) ==
    /\ nCall[c].pc = "idle"
    /\ nCall' = [nCall EXCEPT ![c] = [pc |-> "notifying", next |-> 1, registered |-> nListeners]]
    /\ UNCHANGED <<nViolations, nTotal, nListeners, nHeard>>

\* add_violation: one turn of `for listener in listeners.iter()`; the
\* listener is called with the event, and what it hears is recorded with
\* whether the store holds the event at that time
AddViolationListener(c) ==
    /\ nCall[c].pc = "notifying"
    /\ nCall[c].next <= nListeners
    /\ nHeard' = [nHeard EXCEPT ![nCall[c].next] =
            Append(@, [line |-> LineOfCall(c),
                       stored |-> \E i \in 1..Len(nViolations) :
                                      nViolations[i].line = LineOfCall(c)])]
    /\ nCall' = [nCall EXCEPT ![c].next = @ + 1]
    /\ UNCHANGED <<nViolations, nTotal, nListeners>>

\* add_violation: `drop(listeners)` after the last listener
AddViolationUnlock(c) ==
    /\ nCall[c].pc = "notifying"
    /\ nCall[c].next > nListeners
    /\ nCall' = [nCall EXCEPT ![c].pc = "notified"]
    /\ UNCHANGED <<nViolations, nTotal, nListeners, nHeard>>

\* add_violation under the two write locks: push, count, trim, return
AddViolationPush(c) ==
    /\ nCall[c].pc = "notified"
    /\ nViolations' = trim(Append(nViolations, SandboxViolationEvent_new(LineOfCall(c))))
    /\ nTotal' = bump(nTotal)
    /\ nCall' = [nCall EXCEPT ![c].pc = "returned"]
    /\ UNCHANGED <<nListeners, nHeard>>

NextNotifyOps ==
    \/ NotifySubscribe
    \/ \E c \in Calls : AddViolationBegin(c)
    \/ \E c \in Calls : AddViolationListener(c)
    \/ \E c \in Calls : AddViolationUnlock(c)
    \/ \E c \in Calls : AddViolationPush(c)

----------------------------------------------------------------------------
(* manager/mod.rs: where initialize, update_config, wrap_with_sandbox and
   reset take and release the manager's RwLock, and where they await *)

ManagerOps == {"initialize", "update_config", "wrap_with_sandbox", "reset"}

IdleLock ==
    /\ lkPlatform = "macos"
    /\ lkWriter = "none"
    /\ lkPc = [op \in ManagerOps |-> "idle"]
    /\ lkBridges = 0

InitLockInputs ==
    /\ lkPlatform \in {"macos", "linux"}
    /\ lkWriter = "none"
    /\ lkPc = [op \in ManagerOps |-> "idle"]
    /\ lkBridges = 0

\* the positions at which an operation is suspended at an await
AwaitPoints == {"await_proxies", "await_bridge1", "await_bridge2"}

\* initialize: validate and check_dependencies pass or fail, then
\* `network::initialize_proxies(..).await`
LockInitializeCall(ok) ==
    /\ lkPc["initialize"] = "idle"
    /\ lkPlatform = "linux" => lkBridges + 2 <= MaxBridges
    /\ lkPc' = [lkPc EXCEPT !["initialize"] = IF ok THEN "await_proxies" ELSE "returned"]
    /\ UNCHANGED <<lkPlatform, lkWriter, lkBridges>>

\* initialize: the proxies are started (or a bind failed); `self.state.write()`
\* is taken and the proxies stored; on macOS the rest of the state is
\* written and the guard dropped at the return, on Linux socat is spawned
\* for the first bridge and unix_to_tcp awaits its sleep with the guard alive
LockInitializeStore(ok, spawned) ==
    /\ lkPc["initialize"] = "await_proxies"
    /\ ok => lkWriter = "none"
    /\ lkPc' = [lkPc EXCEPT !["initialize"] =
            IF ok /\ lkPlatform = "linux" /\ spawned THEN "await_bridge1" ELSE "returned"]
    /\ lkWriter' = IF ok /\ lkPlatform = "linux" /\ spawned THEN "initialize" ELSE lkWriter
    /\ UNCHANGED <<lkPlatform, lkBridges>>

\* initialize on Linux: the sleep of the first unix_to_tcp is over; socat is
\* spawned for the second bridge and unix_to_tcp awaits its sleep, or the
\* spawn fails and `?` returns, dropping the guard and the first bridge
LockInitializeBridge(spawned) ==
    /\ lkPc["initialize"] = "await_bridge1"
    /\ lkPc' = [lkPc EXCEPT !["initialize"] = IF spawned THEN "await_bridge2" ELSE "returned"]
    /\ lkWriter' = IF spawned THEN lkWriter ELSE "none"
    /\ UNCHANGED <<lkPlatform, lkBridges>>

\* initialize on Linux: the second sleep is over; the socket paths, the
\* bridges and the policy are written and the guard is dropped at the return
LockInitializeCommit ==
    /\ lkPc["initialize"] = "await_bridge2"
    /\ lkBridges' = lkBridges + 2
    /\ lkWriter' = "none"
    /\ lkPc' = [lkPc EXCEPT !["initialize"] = "returned"]
    /\ UNCHANGED lkPlatform

\* update_config: validate, then `self.state.write().config = Some(config)`
LockUpdateConfig(ok) ==
    /\ lkPc["update_config"] = "idle"
    /\ ok => lkWriter = "none"
    /\ lkPc' = [lkPc EXCEPT !["update_config"] = "returned"]
    /\ UNCHANGED <<lkPlatform, lkWriter, lkBridges>>

\* wrap_with_sandbox: the block under `self.state.read()`
LockWrapRead ==
    /\ lkPc["wrap_with_sandbox"] = "idle"
    /\ lkWriter = "none"
    /\ lkPc' = [lkPc EXCEPT !["wrap_with_sandbox"] = "wrapping"]
    /\ UNCHANGED <<lkPlatform, lkWriter, lkBridges>>

\* wrap_with_sandbox: on Linux the second block under `self.state.read()`,
\* then the platform's wrapper, which awaits nothing
LockWrapCommand ==
    /\ lkPc["wrap_with_sandbox"] = "wrapping"
    /\ lkPlatform = "linux" => lkWriter = "none"
    /\ lkPc' = [lkPc EXCEPT !["wrap_with_sandbox"] = "returned"]
    /\ UNCHANGED <<lkPlatform, lkWriter, lkBridges>>

\* reset: `self.state.write()`, the proxies stopped and the state cleared
\* inline, the guard dropped at the return
LockReset ==
    /\ lkPc["reset"] = "idle"
    /\ lkWriter = "none"
    /\ lkBridges' = 0
    /\ lkPc' = [lkPc EXCEPT !["reset"] = "returned"]
    /\ UNCHANGED <<lkPlatform, lkWriter>>

\* the caller calls the operation again
LockCallAgain(op) ==
    /\ lkPc[op] = "returned"
    /\ lkPc' = [lkPc EXCEPT ![op] = "idle"]
    /\ UNCHANGED <<lkPlatform, lkWriter, lkBridges>>

NextLockOps ==
    \/ \E ok \in BOOLEAN : LockInitializeCall(ok)
    \/ \E ok, spawned \in BOOLEAN : LockInitializeStore(ok, spawned)
    \/ \E spawned \in BOOLEAN : LockInitializeBridge(spawned)
    \/ LockInitializeCommit
    \/ \E ok \in BOOLEAN : LockUpdateConfig(ok)
    \/ LockWrapRead
    \/ LockWrapCommand
    \/ LockReset
    \/ \E op \in ManagerOps : LockCallAgain(op)

----------------------------------------------------------------------------
(* proxy/http.rs, proxy/socks5.rs: the accept loop spawned by start, its
   shutdown signal, and the connections it accepts.  A connection is
   [id, late]: late when it arrived after stop() had sent the signal. *)

\* most connections that arrive, and most calls of stop, in a checked
\* behaviour
MaxConns == 3
MaxStops == 2

AlIdle ==
    [kind |-> "none", loop |-> "none", shutdown_tx |-> None, signal |-> FALSE,
     arrived |-> 0, backlog |-> <<>>, handlers |-> {}, ended |-> {}, accept_errors |-> 0,
     stops |-> 0]

IdleAccept == al = AlIdle

\* HttpProxy::start / Socks5Proxy::start: the one-shot channel is made, its
\* sender kept, and the loop spawned
AlStart(kind) ==
    /\ al.loop = "none"
    /\ al' = [al EXCEPT !.kind = kind, !.loop = "running", !.shutdown_tx = Some("tx")]

\* a client connects: the connection waits in the listener's queue; once the
\* loop has ended the listener is closed and the connection is refused
AlArrive ==
    /\ al.loop = "running"
    /\ al.arrived < MaxConns
    /\ al' = [al EXCEPT !.arrived = @ + 1,
                        !.backlog = Append(@, [id |-> al.arrived + 1, late |-> al.signal])]

\* the select takes the accept branch, Ok: the handler is spawned; the
\* branches are polled in random order, so this branch can be taken while
\* the signal is pending
AlAccept ==
    /\ al.loop = "running"
    /\ al.backlog # <<>>
    /\ al' = [al EXCEPT !.backlog = Tail(@), !.handlers = @ \cup {Head(al.backlog)}]

\* the select takes the accept branch, Err: the error is logged
AlAcceptErr ==
    /\ al.loop = "running"
    /\ al.accept_errors < 1
    /\ al' = [al EXCEPT !.accept_errors = @ + 1]

\* the select takes the shutdown branch: break; the task ends and the
\* listener is dropped with the connections still queued
AlShutdown ==
    /\ al.loop = "running"
    /\ al.signal
    /\ al' = [al EXCEPT !.loop = "exited", !.backlog = <<>>]

\* stop(): `if let Some(tx) = self.shutdown_tx.take() { tx.send(()) }`
AlStop ==
    /\ al.loop # "none"
    /\ al.stops < MaxStops
    /\ al' = IF IsSome(al.shutdown_tx)
             THEN [al EXCEPT !.shutdown_tx = None, !.signal = TRUE, !.stops = @ + 1]
             ELSE [al EXCEPT !.stops = @ + 1]

\* a handler task returns, with Ok or with an error that is logged
AlHandlerEnds(c, ok) ==
    /\ c \in al.handlers
    /\ al' = [al EXCEPT !.handlers = @ \ {c},
                        !.ended = @ \cup {[id |-> c.id, late |-> c.late, ok |-> ok]}]

NextAcceptOps ==
    \/ \E kind \in {"http", "socks"} : AlStart(kind)
    \/ AlArrive
    \/ AlAccept
    \/ AlAcceptErr
    \/ AlShutdown
    \/ AlStop
    \/ \E c \in al.handlers, ok \in BOOLEAN : AlHandlerEnds(c, ok)

----------------------------------------------------------------------------
(* main.rs: the control fd reader task step by step.  The parent process
   writes lines to the control fd and closes it; main sends the shutdown
   signal; the task polls the signal and then next_line, and hands a policy
   that loads to update_config. *)

\* most lines the parent writes to the control fd
MaxWritten == 3

\* the lines the parent writes: two policies that load, one that fails
\* validation, an empty line, and bytes that are no UTF-8
RdLines ==
    {Line(TRUE, FALSE, "json", CfgDenyB), Line(TRUE, TRUE, "json", CfgMitmA),
     Line(TRUE, FALSE, "json", CfgBad), Line(TRUE, TRUE, "empty", CfgOpen),
     Line(FALSE, FALSE, "garbage", CfgOpen)}

RdIdle ==
    [reader |-> "none", fd |-> <<>>, closed |-> FALSE, signal |-> FALSE,
     line |-> None, seen |-> <<>>, applied |-> <<>>, why |-> "none"]

IdleReader == rd = RdIdle

\* main: tokio::spawn of the reader task, after initialize returned Ok
RdSpawn ==
    /\ rd.reader = "none"
    /\ state.initialized
    /\ rd' = [rd EXCEPT !.reader = "select"]
    /\ UNCHANGED varsMgr

\* the parent writes a line to the control fd
RdWrite(line) ==
    /\ ~rd.closed
    /\ Len(rd.seen) + Len(rd.fd) < MaxWritten
    /\ rd' = [rd EXCEPT !.fd = Append(@, line)]
    /\ UNCHANGED varsMgr

\* the parent closes its end of the control fd
RdClose ==
    /\ ~rd.closed
    /\ rd' = [rd EXCEPT !.closed = TRUE]
    /\ UNCHANGED varsMgr

\* main, after the command has exited: shutdown_tx.send(())
RdSendShutdown ==
    /\ rd.reader # "none"
    /\ ~rd.signal
    /\ rd' = [rd EXCEPT !.signal = TRUE]
    /\ UNCHANGED varsMgr

\* Mutant: select! without `biased`, next_line is taken also when the
\* shutdown signal is ready.
shutdown_polled_first_unbiased(signal) == TRUE

\* select! { biased; .. }: the next_line branch is taken only when the
\* shutdown branch, polled first, is not ready
shutdown_polled_first(signal) == ~signal

\* `_ = &mut shutdown_rx => break`
RdSelectShutdown ==
    /\ rd.reader = "select"
    /\ rd.signal
    /\ rd' = [rd EXCEPT !.reader = "stopped", !.why = "shutdown"]
    /\ UNCHANGED varsMgr

\* `Ok(Some(line))`: next_line returns the next line of valid UTF-8
RdNextLine ==
    /\ rd.reader = "select"
    /\ shutdown_polled_first(rd.signal)
    /\ rd.fd # <<>>
    /\ Head(rd.fd).utf8
    /\ rd' = [rd EXCEPT !.reader = "line", !.line = Some(Head(rd.fd)),
                        !.fd = Tail(@), !.seen = Append(@, Head(rd.fd))]
    /\ UNCHANGED varsMgr

\* `Ok(None)`: every line written has been read and the fd is closed
RdEof ==
    /\ rd.reader = "select"
    /\ shutdown_polled_first(rd.signal)
    /\ rd.fd = <<>>
    /\ rd.closed
    /\ rd' = [rd EXCEPT !.reader = "stopped", !.why = "eof"]
    /\ UNCHANGED varsMgr

\* `Err(e)`: the read fails (io), or the next line is not valid UTF-8
\* (InvalidData) and its bytes are consumed
RdReadErr(io) ==
    /\ rd.reader = "select"
    /\ shutdown_polled_first(rd.signal)
    /\ io \/ (rd.fd # <<>> /\ ~Head(rd.fd).utf8)
    /\ rd' = [rd EXCEPT !.reader = "stopped", !.why = "error",
                        !.fd = IF io THEN @ ELSE Tail(@)]
    /\ UNCHANGED varsMgr

\* the body of `Ok(Some(line))`: a policy that loads is handed to
\* update_config, any other line is skipped; the loop goes round
RdApply ==
    /\ rd.reader = "line"
    /\ LET new_config == load_config_from_string(Unwrap(rd.line))
       IN  IF IsSome(new_config)
           THEN /\ UpdateConfig(Unwrap(new_config))
                /\ rd' = [rd EXCEPT !.reader = "select", !.line = None,
                                    !.applied = Append(@, Unwrap(new_config))]
           ELSE /\ UNCHANGED varsMgr
                /\ rd' = [rd EXCEPT !.reader = "select", !.line = None]

\* the steps of the reader task
RdTask ==
    \/ RdSelectShutdown
    \/ RdNextLine
    \/ RdEof
    \/ \E io \in BOOLEAN : RdReadErr(io)
    \/ RdApply

\* main calls initialize once, before it spawns the reader
RdInitialize ==
    /\ rd.reader = "none"
    /\ ~state.initialized
    /\ \/ \E cfg \in ProxyInitConfigs : InitializeProxies(cfg)
       \/ InitializeCommitMacos
    /\ UNCHANGED rd

NextReaderOps ==
    \/ RdInitialize
    \/ RdSpawn
    \/ \E line \in RdLines : RdWrite(line)
    \/ RdClose
    \/ RdSendShutdown
    \/ RdTask

\* main, after it has sent the shutdown signal: manager.reset().await, once
RdReset ==
    /\ rd.signal
    /\ ~afterReset
    /\ ResetCleanup \/ ResetState
    /\ UNCHANGED rd

\* main from initialize to the reset at its end, with the reader task
NextShutdownOps ==
    \/ NextReaderOps
    \/ RdReset

----------------------------------------------------------------------------
(* sandbox/macos/wrapper.rs: wrap_command and write_profile_to_temp for the
   wrap calls of one process, and the execution of the commands they
   return.  A file is [path, content]; the content of a created file that
   was not written yet is <<>>. *)

\* most wrap calls made
MaxWraps == 2
WrapCalls == 1..MaxWraps

\* the process id of the manager's process
ProcessId == 7

\* generate_profile: the profile text, by what it is compiled from
generate_profile(config, http_proxy_port, socks_proxy_port, log_tag) ==
    [config |-> config, http_proxy_port |-> http_proxy_port,
     socks_proxy_port |-> socks_proxy_port, log_tag |-> log_tag]

\* the path write_profile_to_temp writes to: <temp_dir>/srt-profile-<pid>.sb
profile_path(pid) == <<"tmp", "srt-profile-", pid, ".sb">>

\* the files other than the one at path
Others(files, path) == {f \in files : f.path # path}

\* the content of the file at path, None when there is no such file
ReadFile(files, path) ==
    IF \E f \in files : f.path = path
    THEN Some((CHOOSE f \in files : f.path = path).content)
    ELSE None

WfCallIdle ==
    [pc |-> "idle", config |-> CfgOpen, command |-> <<>>, profile |-> None, out |-> None]

WfIdle == [files |-> {}, call |-> [c \in WrapCalls |-> WfCallIdle], ran |-> {}]

IdleWrapFile == wf = WfIdle

\* wrap_command up to generate_profile: the log tag of the command and the
\* profile of the call's policy
WfCompile(c, config, command) ==
    /\ wf.call[c].pc = "idle"
    /\ \A b \in WrapCalls : b < c => wf.call[b].pc # "idle"
    /\ wf' = [wf EXCEPT !.call[c] =
                [pc |-> "profile", config |-> config, command |-> command,
                 profile |-> Some(generate_profile(config, Some(1), Some(3),
                                                   Some(generate_log_tag(command)))),
                 out |-> None]]

\* write_profile_to_temp: File::create makes or truncates the file at the
\* path, or fails and the call returns the error
WfCreate(c, ok) ==
    /\ wf.call[c].pc = "profile"
    /\ IF ok
       THEN wf' = [wf EXCEPT
                !.files = Others(@, profile_path(ProcessId))
                            \cup {[path |-> profile_path(ProcessId), content |-> <<>>]},
                !.call[c].pc = "created"]
       ELSE wf' = [wf EXCEPT !.call[c].pc = "failed"]

\* write_profile_to_temp: write_all puts the profile into the file; then
\* wrap_command returns `sandbox-exec -f <path> <shell> -c <command>`
WfWriteAll(c, ok) ==
    /\ wf.call[c].pc = "created"
    /\ IF ok
       THEN wf' = [wf EXCEPT
                !.files = Others(@, profile_path(ProcessId))
                            \cup {[path |-> profile_path(ProcessId),
                                   content |-> <<Unwrap(wf.call[c].profile)>>]},
                !.call[c].pc = "returned",
                !.call[c].out = Some([profile_path |-> profile_path(ProcessId),
                                      command |-> wf.call[c].command])]
       ELSE wf' = [wf EXCEPT !.call[c].pc = "failed"]

\* the caller runs the returned command: sandbox-exec reads the profile file
\* named in it
WfExecute(c) ==
    /\ wf.call[c].pc = "returned"
    /\ wf' = [wf EXCEPT
            !.call[c].pc = "executed",
            !.ran = @ \cup {[call |-> c,
                             read |-> ReadFile(wf.files, Unwrap(wf.call[c].out).profile_path)]}]

NextWrapFileOps ==
    \/ \E c \in WrapCalls, config \in {CfgOpen, CfgDenyB}, command \in MonCommands :
          WfCompile(c, config, command)
    \/ \E c \in WrapCalls, ok \in BOOLEAN : WfCreate(c, ok)
    \/ \E c \in WrapCalls, ok \in BOOLEAN : WfWriteAll(c, ok)
    \/ \E c \in WrapCalls : WfExecute(c)

----------------------------------------------------------------------------
(* violation/store.rs: the three parking_lot::RwLock of the store under calls
   from several threads, with listeners that call back into the store.  A
   thread is a stack of frames [op, pc, left]; the frame on top is the call
   that runs, the frames beneath it are add_violation calls waiting inside a
   listener.  A lock is [writer, readers]: the thread that has set the
   writer bit (0 for none), and the number of read guards each thread holds.
   A writer sets the bit as soon as no other writer has it and then waits
   for the read guards to go; read() waits while the bit is set. *)

\* the threads, most calls made in a behaviour, and the deepest nesting
NumThreads == 2
MaxStoreCalls == 4
MaxDepth == 2
Threads == 1..NumThreads
StoreOps == {"add_violation", "subscribe", "clear", "get_count"}

RwLock_new == [writer |-> 0, readers |-> [t \in Threads |-> 0]]

IdleReenter ==
    rs = [stack |-> [t \in Threads |-> <<>>], listeners |-> RwLock_new,
          violations |-> RwLock_new, total_count |-> RwLock_new,
          registered |-> 0, calls |-> 0]

\* the frame on top of thread t's stack, and the stack with that frame changed
Top(t) == rs.stack[t][Len(rs.stack[t])]
At(t, op, pc) == rs.stack[t] # <<>> /\ Top(t).op = op /\ Top(t).pc = pc
WithTop(t, pc, left) ==
    [rs.stack EXCEPT ![t][Len(rs.stack[t])] = [op |-> Top(t).op, pc |-> pc, left |-> left]]
Popped(t) == [rs.stack EXCEPT ![t] = SubSeq(@, 1, Len(@) - 1)]

\* RwLock::read returns: the writer bit is not set
CanRead(lock) == lock.writer = 0
\* RwLock::write sets the writer bit: no other writer has it
CanSetWriter(lock) == lock.writer = 0
\* RwLock::write returns: the read guards are gone
CanWrite(lock) == \A t \in Threads : lock.readers[t] = 0

\* a thread calls an operation of the store
StoreCall(t, op) ==
    /\ rs.stack[t] = <<>>
    /\ rs.calls < MaxStoreCalls
    /\ rs' = [rs EXCEPT !.stack[t] = <<[op |-> op, pc |-> "start", left |-> 0]>>,
                        !.calls = @ + 1]

\* add_violation: `let listeners = self.listeners.read()`
AddReadListeners(t) ==
    /\ At(t, "add_violation", "start")
    /\ CanRead(rs.listeners)
    /\ rs' = [rs EXCEPT !.listeners.readers[t] = @ + 1,
                        !.stack = WithTop(t, "notifying", rs.registered)]

\* add_violation: one turn of `for listener in listeners.iter()`: the
\* listener returns at once
AddListenerReturns(t) ==
    /\ At(t, "add_violation", "notifying")
    /\ Top(t).left > 0
    /\ rs' = [rs EXCEPT !.stack = WithTop(t, "notifying", Top(t).left - 1)]

\* add_violation: one turn of the loop: the listener calls an operation of
\* the same store
AddListenerCalls(t, op) ==
    /\ At(t, "add_violation", "notifying")
    /\ Top(t).left > 0
    /\ Len(rs.stack[t]) < MaxDepth
    /\ rs.calls < MaxStoreCalls
    /\ rs' = [rs EXCEPT
            !.stack[t] = Append(WithTop(t, "notifying", Top(t).left - 1)[t],
                                [op |-> op, pc |-> "start", left |-> 0]),
            !.calls = @ + 1]

\* add_violation: `drop(listeners)`
AddDropListeners(t) ==
    /\ At(t, "add_violation", "notifying")
    /\ Top(t).left = 0
    /\ rs' = [rs EXCEPT !.listeners.readers[t] = @ - 1,
                        !.stack = WithTop(t, "notified", 0)]

\* add_violation and clear: `self.violations.write()` sets the writer bit
WriteViolationsBegin(t) ==
    /\ At(t, "add_violation", "notified") \/ At(t, "clear", "start")
    /\ CanSetWriter(rs.violations)
    /\ rs' = [rs EXCEPT !.violations.writer = t, !.stack = WithTop(t, "violations_wait", 0)]

\* add_violation and clear: `self.violations.write()` returns
WriteViolations(t) ==
    /\ At(t, "add_violation", "violations_wait") \/ At(t, "clear", "violations_wait")
    /\ CanWrite(rs.violations)
    /\ rs' = [rs EXCEPT !.stack = WithTop(t, "violations", 0)]

\* add_violation and clear: `self.total_count.write()`, which no reader
\* delays (no operation of the model reads total_count)
WriteTotal(t) ==
    /\ At(t, "add_violation", "violations") \/ At(t, "clear", "violations")
    /\ CanSetWriter(rs.total_count) /\ CanWrite(rs.total_count)
    /\ rs' = [rs EXCEPT !.total_count.writer = t, !.stack = WithTop(t, "total_count", 0)]

\* add_violation and clear: the body under both write guards; the guards are
\* dropped and the call returns
WriteReturn(t) ==
    /\ At(t, "add_violation", "total_count") \/ At(t, "clear", "total_count")
    /\ rs' = [rs EXCEPT !.total_count.writer = 0, !.violations.writer = 0,
                        !.stack = Popped(t)]

\* subscribe: `self.listeners.write()` sets the writer bit
SubscribeBegin(t) ==
    /\ At(t, "subscribe", "start")
    /\ CanSetWriter(rs.listeners)
    /\ rs' = [rs EXCEPT !.listeners.writer = t, !.stack = WithTop(t, "listeners_wait", 0)]

\* subscribe: `self.listeners.write()` returns, the listener is pushed, the
\* guard is dropped and the call returns
Subscribed(t) ==
    /\ At(t, "subscribe", "listeners_wait")
    /\ CanWrite(rs.listeners)
    /\ rs' = [rs EXCEPT !.listeners.writer = 0, !.registered = @ + 1,
                        !.stack = Popped(t)]

\* get_count: `self.violations.read()`
GetRead(t) ==
    /\ At(t, "get_count", "start")
    /\ CanRead(rs.violations)
    /\ rs' = [rs EXCEPT !.violations.readers[t] = @ + 1, !.stack = WithTop(t, "reading", 0)]

\* get_count: the length is read, the guard is dropped, the call returns
GetReturn(t) ==
    /\ At(t, "get_count", "reading")
    /\ rs' = [rs EXCEPT !.violations.readers[t] = @ - 1, !.stack = Popped(t)]

NextReenterOps ==
    \/ \E t \in Threads, op \in StoreOps : StoreCall(t, op)
    \/ \E t \in Threads : AddReadListeners(t)
    \/ \E t \in Threads : AddListenerReturns(t)
    \/ \E t \in Threads, op \in StoreOps : AddListenerCalls(t, op)
    \/ \E t \in Threads : AddDropListeners(t)
    \/ \E t \in Threads : WriteViolationsBegin(t)
    \/ \E t \in Threads : WriteViolations(t)
    \/ \E t \in Threads : WriteTotal(t)
    \/ \E t \in Threads : WriteReturn(t)
    \/ \E t \in Threads : SubscribeBegin(t)
    \/ \E t \in Threads : Subscribed(t)
    \/ \E t \in Threads : GetRead(t)
    \/ \E t \in Threads : GetReturn(t)

----------------------------------------------------------------------------
IdleReq == req = ReqIdle

InitMatch == InitMatchInputs /\ IdleFilter /\ IdleMgr /\ IdleReq /\ IdleProfile /\ IdleJail
        /\ IdleStore /\ IdleValidate /\ IdleCtl /\ IdleSocks /\ IdleMitm /\ IdleMon /\ IdleWrapEnv /\ IdleHost /\ IdleTag /\ IdleGlob /\ IdleNotify /\ IdleLock /\ IdleTunnel /\ IdleAccept /\ IdleReader /\ IdleWrapFile /\ IdleReenter
NextMatch ==
    Match /\ UNCHANGED <<varsFilter, varsMgr, varsReq, varsProfile, varsJail, varsStore, varsValidate, varsCtl, varsSocks, varsMitm, varsMon, varsWrapEnv, varsHost, varsTag, varsGlob, varsNotify, varsLock, varsTunnel, varsAccept, varsReader, varsWrapFile, varsReenter>>
SpecMatch == InitMatch /\ [][NextMatch]_vars

InitFilter == InitFilterInputs /\ IdleMatch /\ IdleMgr /\ IdleReq /\ IdleProfile
        /\ IdleJail /\ IdleStore /\ IdleValidate /\ IdleCtl /\ IdleSocks /\ IdleMitm /\ IdleMon /\ IdleWrapEnv /\ IdleHost /\ IdleTag /\ IdleGlob /\ IdleNotify /\ IdleLock /\ IdleTunnel /\ IdleAccept /\ IdleReader /\ IdleWrapFile /\ IdleReenter
NextFilter ==
    Check /\ UNCHANGED <<varsMatch, varsMgr, varsReq, varsProfile, varsJail, varsStore, varsValidate, varsCtl, varsSocks, varsMitm, varsMon, varsWrapEnv, varsHost, varsTag, varsGlob, varsNotify, varsLock, varsTunnel, varsAccept, varsReader, varsWrapFile, varsReenter>>
SpecFilter == InitFilter /\ [][NextFilter]_vars

Init == InitMgr /\ IdleMatch /\ IdleFilter /\ IdleReq /\ IdleProfile /\ IdleJail
        /\ IdleStore /\ IdleValidate /\ IdleCtl /\ IdleSocks /\ IdleMitm /\ IdleMon /\ IdleWrapEnv /\ IdleHost /\ IdleTag /\ IdleGlob /\ IdleNotify /\ IdleLock /\ IdleTunnel /\ IdleAccept /\ IdleReader /\ IdleWrapFile /\ IdleReenter
Next ==
    NextMgr /\ UNCHANGED <<varsMatch, varsFilter, varsReq, varsProfile, varsJail, varsStore, varsValidate, varsCtl, varsSocks, varsMitm, varsMon, varsWrapEnv, varsHost, varsTag, varsGlob, varsNotify, varsLock, varsTunnel, varsAccept, varsReader, varsWrapFile, varsReenter>>
Spec == Init /\ [][Next]_vars

InitProxy == IdleMgr /\ IdleReq /\ IdleMatch /\ IdleFilter /\ IdleProfile /\ IdleJail
        /\ IdleStore /\ IdleValidate /\ IdleCtl /\ IdleSocks /\ IdleMitm /\ IdleMon /\ IdleWrapEnv /\ IdleHost /\ IdleTag /\ IdleGlob /\ IdleNotify /\ IdleLock /\ IdleTunnel /\ IdleAccept /\ IdleReader /\ IdleWrapFile /\ IdleReenter
NextProxy ==
    \/ NextProxyMgr /\ UNCHANGED <<varsMatch, varsFilter, varsReq, varsProfile, varsJail, varsStore, varsValidate, varsCtl, varsSocks, varsMitm, varsMon, varsWrapEnv, varsHost, varsTag, varsGlob, varsNotify, varsLock, varsTunnel, varsAccept, varsReader, varsWrapFile, varsReenter>>
    \/ NextReq /\ UNCHANGED <<varsMatch, varsFilter, varsProfile, varsJail, varsStore, varsValidate, varsCtl, varsSocks, varsMitm, varsMon, varsWrapEnv, varsHost, varsTag, varsGlob, varsNotify, varsLock, varsTunnel, varsAccept, varsReader, varsWrapFile, varsReenter>>
SpecProxy == InitProxy /\ [][NextProxy]_vars

InitProfile == InitProfileInputs /\ IdleMatch /\ IdleFilter /\ IdleMgr /\ IdleReq
        /\ IdleJail /\ IdleStore /\ IdleValidate /\ IdleCtl /\ IdleSocks /\ IdleMitm /\ IdleMon /\ IdleWrapEnv /\ IdleHost /\ IdleTag /\ IdleGlob /\ IdleNotify /\ IdleLock /\ IdleTunnel /\ IdleAccept /\ IdleReader /\ IdleWrapFile /\ IdleReenter
NextProfile ==
    GenerateProfile /\ UNCHANGED <<varsMatch, varsFilter, varsMgr, varsReq, varsJail, varsStore, varsValidate, varsCtl, varsSocks, varsMitm, varsMon, varsWrapEnv, varsHost, varsTag, varsGlob, varsNotify, varsLock, varsTunnel, varsAccept, varsReader, varsWrapFile, varsReenter>>
SpecProfile == InitProfile /\ [][NextProfile]_vars

InitJail == InitJailInputs /\ IdleMatch /\ IdleFilter /\ IdleMgr /\ IdleReq /\ IdleProfile
        /\ IdleStore /\ IdleValidate /\ IdleCtl /\ IdleSocks /\ IdleMitm /\ IdleMon /\ IdleWrapEnv /\ IdleHost /\ IdleTag /\ IdleGlob /\ IdleNotify /\ IdleLock /\ IdleTunnel /\ IdleAccept /\ IdleReader /\ IdleWrapFile /\ IdleReenter
NextJail ==
    GenerateBwrapCommand /\ UNCHANGED <<varsMatch, varsFilter, varsMgr, varsReq, varsProfile, varsStore, varsValidate, varsCtl, varsSocks, varsMitm, varsMon, varsWrapEnv, varsHost, varsTag, varsGlob, varsNotify, varsLock, varsTunnel, varsAccept, varsReader, varsWrapFile, varsReenter>>
SpecJail == InitJail /\ [][NextJail]_vars

InitStore == SandboxViolationStore_new /\ IdleMatch /\ IdleFilter /\ IdleMgr /\ IdleReq
        /\ IdleProfile /\ IdleJail /\ IdleValidate /\ IdleCtl /\ IdleSocks /\ IdleMitm /\ IdleMon /\ IdleWrapEnv /\ IdleHost /\ IdleTag /\ IdleGlob /\ IdleNotify /\ IdleLock /\ IdleTunnel /\ IdleAccept /\ IdleReader /\ IdleWrapFile /\ IdleReenter
NextStore ==
    NextStoreOps /\ UNCHANGED <<varsMatch, varsFilter, varsMgr, varsReq, varsProfile, varsJail, varsValidate, varsCtl, varsSocks, varsMitm, varsMon, varsWrapEnv, varsHost, varsTag, varsGlob, varsNotify, varsLock, varsTunnel, varsAccept, varsReader, varsWrapFile, varsReenter>>
SpecStore == InitStore /\ [][NextStore]_vars

InitValidate == InitValidateInputs /\ IdleMatch /\ IdleFilter /\ IdleMgr /\ IdleReq
        /\ IdleProfile /\ IdleJail /\ IdleStore /\ IdleCtl /\ IdleSocks /\ IdleMitm /\ IdleMon /\ IdleWrapEnv /\ IdleHost /\ IdleTag /\ IdleGlob /\ IdleNotify /\ IdleLock /\ IdleTunnel /\ IdleAccept /\ IdleReader /\ IdleWrapFile /\ IdleReenter
NextValidate ==
    Validate /\ UNCHANGED <<varsMatch, varsFilter, varsMgr, varsReq, varsProfile, varsJail, varsStore, varsCtl, varsSocks, varsMitm, varsMon, varsWrapEnv, varsHost, varsTag, varsGlob, varsNotify, varsLock, varsTunnel, varsAccept, varsReader, varsWrapFile, varsReenter>>
SpecValidate == InitValidate /\ [][NextValidate]_vars

InitControl == IdleMgr /\ IdleCtl /\ IdleMatch /\ IdleFilter /\ IdleReq /\ IdleProfile
        /\ IdleJail /\ IdleStore /\ IdleValidate /\ IdleSocks /\ IdleMitm /\ IdleMon /\ IdleWrapEnv /\ IdleHost /\ IdleTag /\ IdleGlob /\ IdleNotify /\ IdleLock /\ IdleTunnel /\ IdleAccept /\ IdleReader /\ IdleWrapFile /\ IdleReenter
NextControl ==
    NextCtl /\ UNCHANGED <<varsMatch, varsFilter, varsReq, varsProfile, varsJail, varsStore, varsValidate, varsSocks, varsMitm, varsMon, varsWrapEnv, varsHost, varsTag, varsGlob, varsNotify, varsLock, varsTunnel, varsAccept, varsReader, varsWrapFile, varsReenter>>
SpecControl == InitControl /\ [][NextControl]_vars

InitSocks == IdleSocks /\ IdleMatch /\ IdleFilter /\ IdleMgr /\ IdleReq /\ IdleProfile
        /\ IdleJail /\ IdleStore /\ IdleValidate /\ IdleCtl /\ IdleMitm /\ IdleMon /\ IdleWrapEnv /\ IdleHost /\ IdleTag /\ IdleGlob /\ IdleNotify /\ IdleLock /\ IdleTunnel /\ IdleAccept /\ IdleReader /\ IdleWrapFile /\ IdleReenter
NextSocks ==
    NextSocksOps /\ UNCHANGED <<varsMatch, varsFilter, varsMgr, varsReq, varsProfile, varsJail, varsStore, varsValidate, varsCtl, varsMitm, varsMon, varsWrapEnv, varsHost, varsTag, varsGlob, varsNotify, varsLock, varsTunnel, varsAccept, varsReader, varsWrapFile, varsReenter>>
SpecSocks == InitSocks /\ [][NextSocks]_vars

InitMitm == IdleMitm /\ IdleMatch /\ IdleFilter /\ IdleMgr /\ IdleReq /\ IdleProfile
        /\ IdleJail /\ IdleStore /\ IdleValidate /\ IdleCtl /\ IdleSocks /\ IdleMon /\ IdleWrapEnv /\ IdleHost /\ IdleTag /\ IdleGlob /\ IdleNotify /\ IdleLock /\ IdleTunnel /\ IdleAccept /\ IdleReader /\ IdleWrapFile /\ IdleReenter
NextMitm ==
    NextMitmOps /\ UNCHANGED <<varsMatch, varsFilter, varsMgr, varsReq, varsProfile, varsJail, varsStore, varsValidate, varsCtl, varsSocks, varsMon, varsWrapEnv, varsHost, varsTag, varsGlob, varsNotify, varsLock, varsTunnel, varsAccept, varsReader, varsWrapFile, varsReenter>>
SpecMitm == InitMitm /\ [][NextMitm]_vars

InitMonitor == IdleMon /\ IdleStore /\ IdleMatch /\ IdleFilter /\ IdleMgr /\ IdleReq
        /\ IdleProfile /\ IdleJail /\ IdleValidate /\ IdleCtl /\ IdleSocks /\ IdleMitm /\ IdleWrapEnv /\ IdleHost /\ IdleTag /\ IdleGlob /\ IdleNotify /\ IdleLock /\ IdleTunnel /\ IdleAccept /\ IdleReader /\ IdleWrapFile /\ IdleReenter
NextMonitor ==
    NextMonOps /\ UNCHANGED <<varsMatch, varsFilter, varsMgr, varsReq, varsProfile, varsJail, varsValidate, varsCtl, varsSocks, varsMitm, varsWrapEnv, varsHost, varsTag, varsGlob, varsNotify, varsLock, varsTunnel, varsAccept, varsReader, varsWrapFile, varsReenter>>
SpecMonitor == InitMonitor /\ [][NextMonitor]_vars

InitWrapEnv == InitWrapEnvInputs /\ IdleMatch /\ IdleFilter /\ IdleMgr /\ IdleReq
        /\ IdleProfile /\ IdleJail /\ IdleStore /\ IdleValidate /\ IdleCtl /\ IdleSocks /\ IdleMitm /\ IdleMon /\ IdleHost /\ IdleTag /\ IdleGlob /\ IdleNotify /\ IdleLock /\ IdleTunnel /\ IdleAccept /\ IdleReader /\ IdleWrapFile /\ IdleReenter
NextWrapEnv ==
    WrapEnv /\ UNCHANGED <<varsMatch, varsFilter, varsMgr, varsReq, varsProfile, varsJail, varsStore, varsValidate, varsCtl, varsSocks, varsMitm, varsMon, varsHost, varsTag, varsGlob, varsNotify, varsLock, varsTunnel, varsAccept, varsReader, varsWrapFile, varsReenter>>
SpecWrapEnv == InitWrapEnv /\ [][NextWrapEnv]_vars

InitHost == InitHostInputs /\ IdleMatch /\ IdleFilter /\ IdleMgr /\ IdleReq /\ IdleProfile
        /\ IdleJail /\ IdleStore /\ IdleValidate /\ IdleCtl /\ IdleSocks /\ IdleMitm /\ IdleMon /\ IdleWrapEnv /\ IdleTag /\ IdleGlob /\ IdleNotify /\ IdleLock /\ IdleTunnel /\ IdleAccept /\ IdleReader /\ IdleWrapFile /\ IdleReenter
NextHost ==
    InitializeOnHost /\ UNCHANGED <<varsMatch, varsFilter, varsMgr, varsReq, varsProfile, varsJail, varsStore, varsValidate, varsCtl, varsSocks, varsMitm, varsMon, varsWrapEnv, varsTag, varsGlob, varsNotify, varsLock, varsTunnel, varsAccept, varsReader, varsWrapFile, varsReenter>>
SpecHost == InitHost /\ [][NextHost]_vars

InitTag == InitTagInputs /\ IdleMatch /\ IdleFilter /\ IdleMgr /\ IdleReq /\ IdleProfile
        /\ IdleJail /\ IdleStore /\ IdleValidate /\ IdleCtl /\ IdleSocks /\ IdleMitm /\ IdleMon /\ IdleWrapEnv /\ IdleHost /\ IdleGlob /\ IdleNotify /\ IdleLock /\ IdleTunnel /\ IdleAccept /\ IdleReader /\ IdleWrapFile /\ IdleReenter
NextTag ==
    \/ GenerateLogTag /\ UNCHANGED <<varsMatch, varsFilter, varsMgr, varsReq, varsProfile, varsJail, varsStore, varsValidate, varsCtl, varsSocks, varsMitm, varsMon, varsWrapEnv, varsHost, varsGlob, varsNotify, varsLock, varsTunnel, varsAccept, varsReader, varsWrapFile, varsReenter>>
    \/ DecodeCommandFromTag /\ UNCHANGED <<varsMatch, varsFilter, varsMgr, varsReq, varsProfile, varsJail, varsStore, varsValidate, varsCtl, varsSocks, varsMitm, varsMon, varsWrapEnv, varsHost, varsGlob, varsNotify, varsLock, varsTunnel, varsAccept, varsReader, varsWrapFile, varsReenter>>
SpecTag == InitTag /\ [][NextTag]_vars

InitGlob == InitGlobInputs /\ IdleMatch /\ IdleFilter /\ IdleMgr /\ IdleReq /\ IdleProfile
        /\ IdleJail /\ IdleStore /\ IdleValidate /\ IdleCtl /\ IdleSocks /\ IdleMitm /\ IdleMon /\ IdleWrapEnv /\ IdleHost /\ IdleTag /\ IdleNotify /\ IdleLock /\ IdleTunnel /\ IdleAccept /\ IdleReader /\ IdleWrapFile /\ IdleReenter
NextGlob ==
    NextGlobOps /\ UNCHANGED <<varsMatch, varsFilter, varsMgr, varsReq, varsProfile, varsJail, varsStore, varsValidate, varsCtl, varsSocks, varsMitm, varsMon, varsWrapEnv, varsHost, varsTag, varsNotify, varsLock, varsTunnel, varsAccept, varsReader, varsWrapFile, varsReenter>>
SpecGlob == InitGlob /\ [][NextGlob]_vars

InitNotify == InitNotifyInputs /\ IdleMatch /\ IdleFilter /\ IdleMgr /\ IdleReq
        /\ IdleProfile /\ IdleJail /\ IdleStore /\ IdleValidate /\ IdleCtl /\ IdleSocks /\ IdleMitm /\ IdleMon /\ IdleWrapEnv /\ IdleHost /\ IdleTag /\ IdleGlob /\ IdleLock /\ IdleTunnel /\ IdleAccept /\ IdleReader /\ IdleWrapFile /\ IdleReenter
NextNotify ==
    NextNotifyOps /\ UNCHANGED <<varsMatch, varsFilter, varsMgr, varsReq, varsProfile, varsJail, varsStore, varsValidate, varsCtl, varsSocks, varsMitm, varsMon, varsWrapEnv, varsHost, varsTag, varsGlob, varsLock, varsTunnel, varsAccept, varsReader, varsWrapFile, varsReenter>>
SpecNotify == InitNotify /\ [][NextNotify]_vars

InitLock == InitLockInputs /\ IdleMatch /\ IdleFilter /\ IdleMgr /\ IdleReq /\ IdleProfile
        /\ IdleJail /\ IdleStore /\ IdleValidate /\ IdleCtl /\ IdleSocks /\ IdleMitm /\ IdleMon /\ IdleWrapEnv /\ IdleHost /\ IdleTag /\ IdleGlob /\ IdleNotify /\ IdleTunnel /\ IdleAccept /\ IdleReader /\ IdleWrapFile /\ IdleReenter
NextLock ==
    NextLockOps /\ UNCHANGED <<varsMatch, varsFilter, varsMgr, varsReq, varsProfile, varsJail, varsStore, varsValidate, varsCtl, varsSocks, varsMitm, varsMon, varsWrapEnv, varsHost, varsTag, varsGlob, varsNotify, varsTunnel, varsAccept, varsReader, varsWrapFile, varsReenter>>
SpecLock == InitLock /\ [][NextLock]_vars

InitTunnel == IdleTunnel /\ IdleMatch /\ IdleFilter /\ IdleMgr /\ IdleReq /\ IdleProfile
        /\ IdleJail /\ IdleStore /\ IdleValidate /\ IdleCtl /\ IdleSocks /\ IdleMitm /\ IdleMon /\ IdleWrapEnv /\ IdleHost /\ IdleTag /\ IdleGlob /\ IdleNotify /\ IdleLock /\ IdleAccept /\ IdleReader /\ IdleWrapFile /\ IdleReenter
NextTunnel ==
    NextTunnelOps /\ UNCHANGED <<varsMatch, varsFilter, varsMgr, varsReq, varsProfile, varsJail, varsStore, varsValidate, varsCtl, varsSocks, varsMitm, varsMon, varsWrapEnv, varsHost, varsTag, varsGlob, varsNotify, varsLock, varsAccept, varsReader, varsWrapFile, varsReenter>>
SpecTunnel == InitTunnel /\ [][NextTunnel]_vars

InitAccept == IdleAccept /\ IdleMatch /\ IdleFilter /\ IdleMgr /\ IdleReq /\ IdleProfile
        /\ IdleJail /\ IdleStore /\ IdleValidate /\ IdleCtl /\ IdleSocks /\ IdleMitm /\ IdleMon /\ IdleWrapEnv /\ IdleHost /\ IdleTag /\ IdleGlob /\ IdleNotify /\ IdleLock /\ IdleTunnel /\ IdleReader /\ IdleWrapFile /\ IdleReenter
NextAccept ==
    NextAcceptOps /\ UNCHANGED <<varsMatch, varsFilter, varsMgr, varsReq, varsProfile, varsJail, varsStore, varsValidate, varsCtl, varsSocks, varsMitm, varsMon, varsWrapEnv, varsHost, varsTag, varsGlob, varsNotify, varsLock, varsTunnel, varsReader, varsWrapFile, varsReenter>>
SpecAccept == InitAccept /\ [][NextAccept]_vars

InitWrapFile == IdleWrapFile /\ IdleMatch /\ IdleFilter /\ IdleMgr /\ IdleReq
        /\ IdleProfile /\ IdleJail /\ IdleStore /\ IdleValidate /\ IdleCtl /\ IdleSocks /\ IdleMitm /\ IdleMon /\ IdleWrapEnv /\ IdleHost /\ IdleTag /\ IdleGlob /\ IdleNotify /\ IdleLock /\ IdleTunnel /\ IdleAccept /\ IdleReader /\ IdleReenter
NextWrapFile ==
    NextWrapFileOps /\ UNCHANGED <<varsMatch, varsFilter, varsMgr, varsReq, varsProfile, varsJail, varsStore, varsValidate, varsCtl, varsSocks, varsMitm, varsMon, varsWrapEnv, varsHost, varsTag, varsGlob, varsNotify, varsLock, varsTunnel, varsAccept, varsReader, varsReenter>>
SpecWrapFile == InitWrapFile /\ [][NextWrapFile]_vars

InitShutdown == IdleMgr /\ IdleReader /\ IdleMatch /\ IdleFilter /\ IdleReq /\ IdleProfile
        /\ IdleJail /\ IdleStore /\ IdleValidate /\ IdleCtl /\ IdleSocks /\ IdleMitm /\ IdleMon /\ IdleWrapEnv /\ IdleHost /\ IdleTag /\ IdleGlob /\ IdleNotify /\ IdleLock /\ IdleTunnel /\ IdleAccept /\ IdleWrapFile /\ IdleReenter
NextShutdown ==
    NextShutdownOps /\ UNCHANGED <<varsMatch, varsFilter, varsReq, varsProfile, varsJail, varsStore, varsValidate, varsCtl, varsSocks, varsMitm, varsMon, varsWrapEnv, varsHost, varsTag, varsGlob, varsNotify, varsLock, varsTunnel, varsAccept, varsWrapFile, varsReenter>>
SpecShutdown == InitShutdown /\ [][NextShutdown]_vars

InitReenter == IdleReenter /\ IdleMatch /\ IdleFilter /\ IdleMgr /\ IdleReq /\ IdleProfile
        /\ IdleJail /\ IdleStore /\ IdleValidate /\ IdleCtl /\ IdleSocks /\ IdleMitm /\ IdleMon /\ IdleWrapEnv /\ IdleHost /\ IdleTag /\ IdleGlob /\ IdleNotify /\ IdleLock /\ IdleTunnel /\ IdleAccept /\ IdleReader /\ IdleWrapFile
NextReenter ==
    NextReenterOps /\ UNCHANGED <<varsMatch, varsFilter, varsMgr, varsReq, varsProfile, varsJail, varsStore, varsValidate, varsCtl, varsSocks, varsMitm, varsMon, varsWrapEnv, varsHost, varsTag, varsGlob, varsNotify, varsLock, varsTunnel, varsAccept, varsReader, varsWrapFile>>
SpecReenter == InitReenter /\ [][NextReenter]_vars

InitReader == IdleMgr /\ IdleReader /\ IdleMatch /\ IdleFilter /\ IdleReq /\ IdleProfile
        /\ IdleJail /\ IdleStore /\ IdleValidate /\ IdleCtl /\ IdleSocks /\ IdleMitm /\ IdleMon /\ IdleWrapEnv /\ IdleHost /\ IdleTag /\ IdleGlob /\ IdleNotify /\ IdleLock /\ IdleTunnel /\ IdleAccept /\ IdleWrapFile /\ IdleReenter
NextReader ==
    NextReaderOps /\ UNCHANGED <<varsMatch, varsFilter, varsReq, varsProfile, varsJail, varsStore, varsValidate, varsCtl, varsSocks, varsMitm, varsMon, varsWrapEnv, varsHost, varsTag, varsGlob, varsNotify, varsLock, varsTunnel, varsAccept, varsWrapFile, varsReenter>>
SpecReader == InitReader /\ [][NextReader]_vars

----------------------------------------------------------------------------
(* C1 *)

\* the reply a proxy of the given kind gives to a denied request
DeniedReply(kind) == IF kind = "socks" THEN REP_CONNECTION_NOT_ALLOWED ELSE FORBIDDEN

\* the request being handled, or last handled, on the connection was denied
\* and answered with the denial, without any upstream connection, MITM
\* connection or forwarded byte, and nothing of it is left to run
DeniedAndDropped ==
    /\ req.status = DeniedReply(req.kind)
    /\ IsNone(req.upstream)
    /\ ~req.via_mitm
    /\ ~req.forwarded
    /\ req.pc \in {"accepted", "closed"}

\* every upstream connection is to a host the handler's filter did not deny
UpstreamNotDenied ==
    IsSome(req.upstream) =>
        check(req.filter, Unwrap(req.upstream), CONNECT_DEFAULT_PORT) # Deny

----------------------------------------------------------------------------
(* C4 *)

\* C4: every request that a proxy held by the manager begins to handle after
\* update_config(p) has returned gets its filter decision from p, without
\* the proxies being restarted (req.policy is the policy of the last
\* update_config that had returned when the request began, if any).
C4_UpdateReachesProxies ==
    (req.decision # "none" /\ req.current /\ IsSome(req.policy)) =>
        req.decision =
            check(from_config(Unwrap(req.policy).network), req.host, CONNECT_DEFAULT_PORT)

----------------------------------------------------------------------------
(* C2 *)

\* some pattern of the list matches the hostname
SomeMatch(list, hostname) ==
    \E i \in 1..Len(list) : matches_domain_pattern(hostname, list[i])

\* C2: for every hostname and every policy, check returns Deny if any deny
\* pattern matches; otherwise Mitm (intercept) if any intercept pattern
\* matches; otherwise, with a non-empty allow list, Allow if some allow
\* pattern matches and Deny if none does; otherwise Allow.  The port never
\* changes the decision.
C2_CheckOrder ==
    fDecision \notin {"none", "idle"} =>
        /\ fDecision =
             (IF SomeMatch(fFilter.denied_domains, fHost) THEN Deny
              ELSE IF SomeMatch(fFilter.mitm_domains, fHost) THEN Mitm
              ELSE IF Len(fFilter.allowed_domains) > 0
                   THEN (IF SomeMatch(fFilter.allowed_domains, fHost) THEN Allow ELSE Deny)
              ELSE Allow)
        /\ \A q \in FilterPorts : check(fFilter, fHost, q) = fDecision

\* a host matched by the deny, the intercept and the allow list at once was decided
C2_Witness ==
    /\ fDecision = Deny
    /\ SomeMatch(fFilter.denied_domains, fHost)
    /\ SomeMatch(fFilter.mitm_domains, fHost)
    /\ SomeMatch(fFilter.allowed_domains, fHost)

----------------------------------------------------------------------------
(* C3 *)

IsWildcard(pattern) == starts_with(to_lowercase(pattern), <<"*", ".">>)
BaseOf(pattern) == SubSeq(pattern, 3, Len(pattern))

\* the characters of alphabet A that differ from c in letter case only
CaseSet(c, A) == {x \in A : LowerChar(x) = LowerChar(c)}

\* the spellings of s over alphabet A that differ from it in letter case only
RECURSIVE CaseVariants(_, _)
CaseVariants(s, A) ==
    IF s = <<>> THEN {<<>>}
    ELSE {<<c>> \o t : c \in CaseSet(Head(s), A), t \in CaseVariants(Tail(s), A)}

\* C3: matches_domain_pattern compares case-insensitively in both arguments;
\* a literal pattern matches exactly the hostname equal to it; a pattern
\* *.base matches exactly the hostnames that end with ".base"; a hostname
\* equal to the bare base is never matched by *.base.
C3_PatternMatch ==
    mDone =>
        /\ \A h \in CaseVariants(mHost, HostAlphabet) :
             \A p \in CaseVariants(mPat, PatAlphabet) :
                matches_domain_pattern(h, p) = mResult
        /\ ~IsWildcard(mPat) => (mResult <=> to_lowercase(mHost) = to_lowercase(mPat))
        /\ IsWildcard(mPat) =>
             (mResult <=>
                \E k \in 0..Len(mHost) :
                    to_lowercase(mHost) =
                        SubSeq(to_lowercase(mHost), 1, k) \o <<".">> \o to_lowercase(BaseOf(mPat)))
        /\ (IsWildcard(mPat) /\ to_lowercase(mHost) = to_lowercase(BaseOf(mPat)))
             => mResult = FALSE

\* the bare base "a" was compared with the pattern "*.a", in another letter case
C3_Witness ==
    /\ mDone
    /\ mResult = FALSE
    /\ mPat = <<"*", ".", "a">>
    /\ mHost = <<"A">>

----------------------------------------------------------------------------
(* C5 *)

\* the directory d occurs in the path p, below the root
InDirectory(p, d) ==
    \E i \in 2..(Len(p) - Len(d) + 1) : SubSeq(p, i, i + Len(d) - 1) = d

\* the path names one of the given files (in any letter case) or lies in, or
\* is, one of the given directories
Dangerous(p, files, dirs) ==
    \/ Len(p) >= 2 /\ FoldName(p[Len(p)]) \in files
    \/ \E d \in dirs : InDirectory(p, d)

\* the paths the profile is probed with
ProbePaths ==
    {<<"/", "w", f>> : f \in Range(DANGEROUS_FILES)}
      \cup {<<"/", "w">> \o d : d \in Range(DANGEROUS_DIRECTORIES)}
      \cup {<<"/", "w">> \o d \o <<"x">> : d \in Range(DANGEROUS_DIRECTORIES)}
      \cup {<<"/">> \o d \o <<"x">> : d \in Range(DANGEROUS_DIRECTORIES)}
      \cup {<<"/", "w", ".BASHRC">>, <<"/", "w", "sub", ".GitConfig">>, <<"/", ".bashrc">>,
            <<"/", "w", ".git", "config">>, <<"/", "w", "x">>, <<"/", "w", "secret", "x">>}

\* a deny file-write* rule matches the path
CoveredByDeny(p) ==
    \E i \in 1..Len(pProfile) :
        /\ pProfile[i].action = "deny"
        /\ pProfile[i].op = "file-write*"
        /\ RuleMatches(pProfile[i], p)

\* every deny file-write* rule (deny_write and mandatory) comes after every
\* allow file-write* rule
DeniesAfterAllows ==
    \A i, j \in 1..Len(pProfile) :
        (/\ pProfile[i].op = "file-write*" /\ pProfile[i].action = "allow"
         /\ pProfile[j].op = "file-write*" /\ pProfile[j].action = "deny") => i < j

----------------------------------------------------------------------------
(* C6 *)

\* the positions of the mount options in the argv, after the leading
\* --ro-bind / /
WritableBinds == {i \in (Len(BwrapBase) + 1)..Len(jArgv) : jArgv[i] = Str("--bind")}
DenyBinds == {i \in (Len(BwrapBase) + 1)..Len(jArgv) : jArgv[i] = Str("--ro-bind")}

JailProbes ==
    {<<"/">>, Cwd, <<"/", "a", "x">>, <<"/", "a", "b">>, LinkPath, <<"/", "a", ".git">>,
     <<"/", "a", ".git", "x">>, <<"/", "a", ".bashrc">>, <<"/", "h", ".gitconfig">>,
     <<"/", "nx">>, <<"/", "c">>}

\* C6: in the generated argv every deny bind (the read-only bind of a
\* deny_write path, of a discovered dangerous file, of a dangerous directory
\* present in the working directory or home, or the /dev/null bind of a deny
\* path that does not exist) comes after every writable bind, so for a path
\* covered by both a writable bind and a deny bind the bind applied last is
\* the read-only one.
C6_DenyBindsLast ==
    jArgv # <<>> =>
        LET W == WritableBinds
            D == DenyBinds
        IN  /\ \A p \in deny_paths(jWorld, jConfig) :
                  \E j \in D :
                      /\ jArgv[j + 2] = p
                      /\ jArgv[j + 1] = IF exists(jWorld, p) THEN p ELSE DevNull
            /\ \A i \in W : \A j \in D : i < j
            /\ \A p \in JailProbes :
                  LET over == {i \in W \cup D : starts_with(p, jArgv[i + 2])}
                  IN  (over \cap W # {} /\ over \cap D # {})
                        => (CHOOSE i \in over : \A j \in over : j <= i) \in D

\* /a is bound writable while /a/.git and /a/.bashrc are bound read-only and
\* the missing deny_write path /nx is bound to /dev/null
C6_Witness ==
    /\ jArgv # <<>>
    /\ \E i \in WritableBinds : jArgv[i + 2] = Cwd
    /\ \E j \in DenyBinds : jArgv[j + 1] = <<"/", "a", ".git">> /\ jArgv[j + 2] = <<"/", "a", ".git">>
    /\ \E j \in DenyBinds : jArgv[j + 2] = <<"/", "a", ".bashrc">>
    /\ \E j \in DenyBinds : jArgv[j + 1] = DevNull /\ jArgv[j + 2] = <<"/", "nx">>

----------------------------------------------------------------------------
(* C7 *)

\* the allow_write entry exists and is a symlink to one of its own ancestors
EscapesToAncestor(w, e) ==
    /\ ~contains_glob_chars(e)
    /\ IsSome(canonicalize(w, e))
    /\ Unwrap(canonicalize(w, e)) # e
    /\ starts_with(e, Unwrap(canonicalize(w, e)))

\* C7: for every allow_write entry that exists and is a symlink to one of
\* its own ancestors (the ancestor not being an allow_write entry itself),
\* the mounts hold a /dev/null block-bind for the entry and no writable bind
\* for the entry or for the ancestor it resolves to.
C7_SymlinkEscapeBlocked ==
    jArgv # <<>> =>
        \A k \in 1..Len(jConfig.allow_write) :
            (/\ EscapesToAncestor(jWorld, jConfig.allow_write[k])
             /\ Unwrap(canonicalize(jWorld, jConfig.allow_write[k]))
                    \notin Range(jConfig.allow_write))
              => /\ BindMount_block(jConfig.allow_write[k]) \in Range(jMounts)
                 /\ \A i \in WritableBinds :
                        jArgv[i + 2] \notin {jConfig.allow_write[k],
                                             Unwrap(canonicalize(jWorld, jConfig.allow_write[k]))}

----------------------------------------------------------------------------
(* C8 *)

\* a wrap_with_sandbox call has returned
WrapReturned == wrapc.pc = "idle" /\ wrapc.result # "none"

\* C8 as stated: wrap returns a command only while the manager is
\* initialized; a call made before the first successful initialize, after an
\* initialize that returned an error, or after reset returns an error and
\* produces no command string and no profile file.
C8_Original ==
    WrapReturned =>
        ((~wrapc.atCall.initialized \/ wrapc.atCall.lastInit = "err"
            \/ wrapc.atCall.afterReset)
         => (wrapc.result = "err" /\ IsNone(wrapc.out) /\ ~wrapc.wrote))

\* C8 (amended): every wrap call that finds the manager not initialized
\* (before the first successful initialize, after a failed initialize of a
\* manager that was not initialized, after reset) returns an error and
\* produces no command string and no profile file; a command string is
\* returned only by a call that found the manager initialized.
C8_WrapNeedsInitialized ==
    WrapReturned =>
        /\ ~wrapc.atCall.initialized
             => (wrapc.result = "err" /\ IsNone(wrapc.out) /\ ~wrapc.wrote)
        /\ wrapc.atCall.afterReset
             => (wrapc.result = "err" /\ IsNone(wrapc.out) /\ ~wrapc.wrote)
        /\ IsSome(wrapc.out) => (wrapc.result = "ok" /\ wrapc.atCall.initialized)

\* a wrap call made after a failed first initialize, with a configuration
\* already stored by update_config, returned an error
C8_Witness ==
    /\ WrapReturned
    /\ ~wrapc.atCall.initialized
    /\ wrapc.atCall.lastInit = "err"
    /\ IsSome(state.config)
    /\ wrapc.result = "err"

----------------------------------------------------------------------------
(* C9 *)

\* the proxy held in Option o is of the given kind, bound to the published
\* port, and its accept loop is running
BoundAndAccepting(o, kind, published) ==
    /\ IsSome(o)
    /\ proxies[Unwrap(o)].kind = kind
    /\ proxies[Unwrap(o)].loop = "running"
    /\ published = Some(proxies[Unwrap(o)].port)

\* C9: in every reachable state of the manager, initialized == true implies
\* that both the HTTP proxy and the SOCKS5 proxy are bound to their published
\* ports and their accept loops are running.
C9_InitializedProxiesRunning ==
    state.initialized =>
        /\ BoundAndAccepting(state.http_proxy, "http", state.http_proxy_port)
        /\ BoundAndAccepting(state.socks_proxy, "socks", state.socks_proxy_port)
        /\ Unwrap(state.http_proxy) # Unwrap(state.socks_proxy)

\* the manager is initialized after a second initialize replaced the proxies
\* of the first, whose accept loops have been signalled
C9_Witness ==
    /\ state.initialized
    /\ \E i \in ProxySlots : proxies[i].loop = "signalled"
    /\ BoundAndAccepting(state.http_proxy, "http", state.http_proxy_port)

----------------------------------------------------------------------------
(* C10 *)

\* C10: after reset() returns, no temporary profile file written by a wrap
\* call and no socket file of a bridge exists on disk, for every
\* interleaving of initialize, wrap and reset calls.
C10_ResetLeavesNoFiles ==
    afterReset => (IsNone(profileFile) /\ sockFiles = {})

----------------------------------------------------------------------------
(* C11 *)

\* the bridges whose socat child runs and has bound its socket
LiveBridges ==
    {i \in 1..Len(state.bridges) : state.bridges[i].alive /\ state.bridges[i].listening}

\* C11: at every moment, across any sequence of initialize and reset calls,
\* no two live bridge subprocesses listen on the same socket path, and the
\* socket file of a live bridge is never removed or taken over by the start
\* of another bridge (it is still on disk while its bridge lives).
C11_BridgeEndpointsUnique ==
    /\ \A i, j \in LiveBridges : i # j => state.bridges[i].socket_path # state.bridges[j].socket_path
    /\ \A i \in LiveBridges : state.bridges[i].socket_path \in sockFiles

----------------------------------------------------------------------------
(* C12 *)

\* the last n elements of a sequence (all of it when it is shorter)
LastN(q, n) == IF Len(q) <= n THEN q ELSE SubSeq(q, Len(q) - n + 1, Len(q))

\* C12: after any sequence of add_violation and clear calls, concurrent ones
\* included, the store holds at most MAX_VIOLATIONS entries and they are the
\* most recently added min(n, MAX_VIOLATIONS) events since the last clear,
\* in the order they were added: every step leaves the store alone, empties
\* it (clear), or appends the event of a thread in add_violation and keeps
\* the newest MAX_VIOLATIONS; the number held is min(total_count, MAX_VIOLATIONS).
C12_StoreBoundedRecent ==
    [][/\ Len(vViolations') <= MAX_VIOLATIONS
       /\ Len(vViolations') = IF vTotal' < MAX_VIOLATIONS THEN vTotal' ELSE MAX_VIOLATIONS
       /\ IF \E t \in Adders : vAdd[t] = "notified" /\ vAdd'[t] = "idle"
          THEN \E t \in Adders :
                  /\ vAdd[t] = "notified" /\ vAdd'[t] = "idle"
                  /\ vViolations' =
                       LastN(Append(vViolations, SandboxViolationEvent_new(LineOf(t))),
                             MAX_VIOLATIONS)
          ELSE \/ vViolations' = vViolations
               \/ vViolations' = <<>> /\ vTotal' = 0]_vars

\* the store is full, more than MAX_VIOLATIONS events were added since the
\* last clear, and the racing thread's event sits between events of the
\* main thread
C12_Witness ==
    /\ Len(vViolations) = MAX_VIOLATIONS
    /\ vTotal > MAX_VIOLATIONS + 1
    /\ \E i \in 2..(MAX_VIOLATIONS - 1) : vViolations[i].line = "r"
    /\ vViolations[1].line = "x" /\ vViolations[MAX_VIOLATIONS].line = "x"

----------------------------------------------------------------------------
(* C13 *)

\* C13 as stated: the total counter never decreases, for every operation of
\* the store (add_violation, clear, subscribe and the getters).
C13_Original == [][vTotal' >= vTotal]_vars

\* C13 (amended): the total counter never decreases except through clear:
\* add_violation increases it by exactly one, subscribe leaves it unchanged
\* (as do the getters, which change nothing), and clear resets it to 0
\* together with emptying the store.
C13_TotalCount ==
    [][\/ vTotal' = vTotal /\ vViolations' = vViolations
       \/ /\ vTotal' = vTotal + 1
          /\ \E t \in Adders : vAdd[t] = "notified" /\ vAdd'[t] = "idle"
       \/ vTotal' = 0 /\ vViolations' = <<>> /\ vAdd' = vAdd]_vars

\* a clear has reset the counter: a listener heard an event of a finished
\* add_violation, yet nothing is counted or stored
C13_Witness ==
    /\ vTotal = 0 /\ vViolations = <<>>
    /\ IsSome(vHeard)
    /\ \A t \in Adders : vAdd[t] = "idle"

----------------------------------------------------------------------------
(* C14 *)

\* the pattern is one the claim says is rejected: empty, the bare "*", "*."
\* followed by a suffix of at most TooBroadLen characters with no dot, one
\* with ":", or one with a character outside [A-Za-z0-9._-] after the "*."
\* prefix is stripped
ForbiddenPattern(p) ==
    LET wild == Len(p) >= 2 /\ p[1] = "*" /\ p[2] = "."
    IN  \/ Len(p) = 0
        \/ p = <<"*">>
        \/ wild /\ Len(p) - 2 <= TooBroadLen /\ \A i \in 3..Len(p) : p[i] # "."
        \/ \E i \in 1..Len(p) : p[i] = ":"
        \/ \E i \in (IF wild THEN 3 ELSE 1)..Len(p) :
              p[i] \notin AlnumChars \cup {".", "_", "-"}

\* the patterns of the allow, deny and MITM lists of a policy
PatternsOf(config) ==
    Range(config.network.allowed_domains) \cup Range(config.network.denied_domains)
      \cup (IF IsSome(config.network.mitm_proxy)
            THEN Range(Unwrap(config.network.mitm_proxy).domains) ELSE {})

\* C14: validate is total and deterministic (every call on a policy returns,
\* and returns the same result), and it rejects a policy with
\* InvalidDomainPattern exactly when some pattern of the allow, deny or MITM
\* list is forbidden; every other policy is accepted.
C14_ValidateRejectsExactly ==
    valCalls > 0 =>
        valResult = IF \E p \in PatternsOf(valConfig) : ForbiddenPattern(p)
                    THEN "InvalidDomainPattern" ELSE "Ok"

\* the second call on a policy whose MITM list holds "*.aaaa" after a valid
\* pattern rejected it
C14_Witness ==
    /\ valCalls = 2
    /\ valResult = "InvalidDomainPattern"
    /\ IsSome(valConfig.network.mitm_proxy)
    /\ Unwrap(valConfig.network.mitm_proxy).domains = <<HostA, <<"*", ".", "a", "a", "a", "a">>>>

----------------------------------------------------------------------------
(* C15 *)

\* the input cannot be applied: a policy that fails validation, or a line
\* that is empty, is not valid JSON (no JSON policy, or bytes that are not
\* even UTF-8) or fails validation
CannotApply(input) == ~input.utf8 \/ IsNone(load_config_from_string(input))

\* C15: a policy update that fails leaves the current policy untouched:
\* update_config with a policy that fails validation returns an error and
\* the manager's config is unchanged, and a control-fd line that is empty,
\* is not valid JSON or fails validation changes nothing and does not stop
\* the reader.
C15_FailedUpdateChangesNothing ==
    [][(ctl'.tick # ctl.tick /\ CannotApply(ctl'.input)) =>
          /\ state' = state
          /\ ctl'.reader = ctl.reader
          /\ ctl'.result \in {"err", "skipped"}]_vars

----------------------------------------------------------------------------
(* C16 *)

\* C16: reset is idempotent: from every reachable state of the manager, two
\* successive reset() calls leave the manager state, the proxies' accept
\* loops and the files on disk exactly as one reset() call does; reset(w) is
\* what the steps of a reset do to the world when nothing runs in between.
C16_ResetIdempotent ==
    /\ [](reset(reset(World)) = reset(World))
    /\ [][ResetCleanup => profileFile' = reset(World).profileFile]_vars
    /\ [][ResetState =>
            /\ state' = reset(World).state
            /\ proxies' = reset(World).proxies
            /\ sockFiles' = reset(World).sockFiles]_vars

\* a reset has just run on a manager that held running proxies: their accept
\* loops are signalled, the state is cleared, and a second reset finds
\* nothing to change
C16_Witness ==
    /\ afterReset
    /\ rst = "idle"
    /\ ~state.initialized
    /\ \E i \in ProxySlots : proxies[i].loop = "signalled"
    /\ profileFile = None
    /\ reset(World) = World

----------------------------------------------------------------------------
(* C17 *)

\* the request read on the connection, and why it is malformed
SkRequest == Unwrap(sk.request)
Malformed(r) ==
    \/ r.ver # SOCKS_VERSION
    \/ r.cmd # CMD_CONNECT
    \/ r.atyp \notin {ATYP_IPV4, ATYP_DOMAIN, ATYP_IPV6}

\* the reply code that tells why the request on the connection failed
CauseCode ==
    IF Malformed(SkRequest) THEN REP_GENERAL_FAILURE
    ELSE IF sk.decision = Deny THEN REP_CONNECTION_NOT_ALLOWED
    ELSE REP_HOST_UNREACHABLE

\* C17: when a SOCKS5 connection is closed on which a request was read that
\* did not succeed, exactly one reply was written and its code tells the
\* cause: 0x01 for a malformed request (wrong version byte, a command other
\* than CONNECT, an unsupported address type), 0x02 for a destination the
\* filter denies, 0x04 for a failed connect.
C17_FailedRequestGetsOneReply ==
    (sk.pc = "closed" /\ IsSome(sk.request) /\ IsNone(sk.upstream))
        => /\ Len(sk.replies) = 1
           /\ sk.replies[1].rep = CauseCode

----------------------------------------------------------------------------
(* C18 *)

\* the client's bytes have been written to the MITM socket
Spliced == Len(mt.ipcOut) > 1

\* the bytes the MITM proxy answered hold "200"
ReplyHas200 ==
    /\ IsSome(mt.response)
    /\ str_contains(from_utf8_lossy(Unwrap(mt.response)), <<"2", "0", "0">>)

\* C18: for a CONNECT whose filter decision is Mitm, whatever is written to
\* a peer is written to the configured MITM socket and begins with the
\* CONNECT request for host:port; the client's bytes follow only if the
\* MITM proxy's reply holds "200"; when the reply does not, no client byte
\* is forwarded, the error is reported and the connection is closed; and no
\* connection to the origin is made.
C18_InterceptedConnect ==
    mt.decision = Mitm =>
        /\ IsSome(mt.mitm_socket_path)
        /\ mt.upstream = None
        /\ mt.ipcOut # <<>> =>
              /\ mt.ipc = mt.mitm_socket_path
              /\ mt.ipcOut[1] = connect_req(mt.host, mt.port)
        /\ Spliced => ReplyHas200
        /\ (IsSome(mt.response) /\ ~ReplyHas200) =>
              /\ mt.pc = "closed"
              /\ ~Spliced
              /\ mt.errors = <<"MITM tunnel error">>

\* the MITM proxy answered with a reply holding "200" and the client's bytes
\* went to the MITM socket after the CONNECT request
C18_Witness ==
    /\ mt.decision = Mitm
    /\ ReplyHas200
    /\ Spliced
    /\ mt.ipcOut[1] = connect_req(HostA, 8443)

----------------------------------------------------------------------------
(* C19 *)

\* C19: for a request whose filter decision is Mitm (a decision a filter
\* gives only when the policy configures the MITM proxy and its socket),
\* neither the HTTP proxy nor the SOCKS5 proxy opens a TCP connection to
\* the origin host.
C19_InterceptNeverDirect ==
    req.decision = Mitm => req.upstream = None

----------------------------------------------------------------------------
(* C20 *)

\* nothing that could still add a violation is pending: the reader task, if
\* any, has read every line emitted so far, and its channel is empty
MonitorSettled ==
    /\ lgMon.task = "running" => lgMon.next > Len(lgLines)
    /\ lgMon.chan = <<>>

\* the violations the trace lines emitted so far stand for, in the order of
\* the lines, each carrying the command whose tag the line holds
ExpectedViolations ==
    [i \in 1..Len(lgLines) |->
        LET command == CHOOSE c \in MonCommands : generate_log_tag(c) = lgLines[i].tag
        IN  SandboxViolationEvent_with_command(lgLines[i], Some(command),
                                               Some(lgLines[i].tag))]

\* C20: on macOS, once nothing is pending, the manager's violation store
\* holds one violation for every trace line emitted with the tag of a
\* command the manager wrapped, carrying that command, in the order the
\* lines were emitted; and once the manager has reset, no reader task and
\* no log-streaming helper is left running.
C20_TraceLinesReachStore ==
    /\ MonitorSettled => vViolations = ExpectedViolations
    /\ (lgManager = "reset" /\ MonitorSettled) =>
          (lgMon.task # "running" /\ lgMon.helper # "running")

----------------------------------------------------------------------------
(* C21 *)

\* the shell accepts the command line: no ";" stands first or directly
\* after a ";" or a "&"
ShellParses(toks) ==
    /\ toks # <<>> => toks[1].k # "op"
    /\ \A i \in 1..(Len(toks) - 1) : ~(toks[i].k = "op" /\ toks[i + 1] = Op(";"))

\* the assignments of the export statements that precede the user command
ExportedBeforeCommand(toks) ==
    {toks[i] : i \in {j \in 1..Len(toks) :
        /\ toks[j].k = "assign"
        /\ \E e \in 1..(j - 1) :
              /\ toks[e] = Word("export")
              /\ \A m \in e..j : toks[m].k # "op"
        /\ \E u \in (j + 1)..Len(toks) : toks[u].k = "command"}}

\* the variables the sandboxee must see, for the manager's two ports
RequiredEnv(http_port, socks_port) ==
    {Assign(n, "http://localhost:", http_port) :
        n \in {"http_proxy", "HTTP_PROXY", "https_proxy", "HTTPS_PROXY"}}
    \cup {Assign(n, "socks5://localhost:", socks_port) : n \in {"ALL_PROXY", "all_proxy"}}
    \cup {Assign("GIT_SSH_COMMAND", "ssh -o ProxyCommand='nc -X 5 -x localhost:%n %h %p'",
                 socks_port)}

\* C21: the command line wrap hands to the sandboxee's shell is accepted by
\* the shell and exports, before the user command, http_proxy, HTTP_PROXY,
\* https_proxy, HTTPS_PROXY, ALL_PROXY, all_proxy and GIT_SSH_COMMAND with
\* the ports of the manager's proxies.
C21_WrappedExportsProxyEnv ==
    weDone =>
        /\ ShellParses(weOut)
        /\ RequiredEnv(Unwrap(weIn.http_port), Unwrap(weIn.socks_port))
              \subseteq ExportedBeforeCommand(weOut)


----------------------------------------------------------------------------
(* C22 *)

\* the text has "wsl" followed by a digit somewhere, whatever the case
HasWslDigit(text) ==
    \E i \in 1..(Len(text) - 3) :
        /\ SubSeq(to_lowercase(text), i, i + 2) = <<"w", "s", "l">>
        /\ is_ascii_digit(text[i + 3])

\* the legacy virtualized-Linux variant: /proc/version names microsoft and
\* has no "WSL" followed by a digit
LegacyWsl(host) ==
    /\ host.target = "linux"
    /\ IsSome(host.proc_version)
    /\ str_contains(to_lowercase(Unwrap(host.proc_version)),
                    <<"m", "i", "c", "r", "o", "s", "o", "f", "t">>)
    /\ ~HasWslDigit(Unwrap(host.proc_version))

\* C22: once initialize has returned, on a legacy WSL host it has failed with
\* UnsupportedPlatform and started no proxy, and on every other Linux host it
\* has not failed with UnsupportedPlatform.
C22_LegacyWslUnsupported ==
    hResult # "none" =>
        /\ LegacyWsl(hHost) => hResult = "UnsupportedPlatform" /\ hProxies = 0
        /\ hHost.target = "linux" /\ ~LegacyWsl(hHost) => hResult # "UnsupportedPlatform"

----------------------------------------------------------------------------
(* C23 *)

\* the part of the tag between the first "CMD64_" and the first "_END_"
\* that follows it
Bounded(tag) ==
    LET rest == SubSeq(tag, str_find(tag, CMD64) + 6, Len(tag))
    IN  SubSeq(rest, 1, str_find(rest, END) - 1)

\* C23: the command decoded from the log tag of a command is that command,
\* and the first "CMD64_" and the first "_END_" after it in the tag bound
\* exactly the base64 encoding of the command.
C23_LogTagRoundTrip ==
    /\ IsSome(tgTag) =>
          /\ str_find(Unwrap(tgTag), CMD64) = 1
          /\ Bounded(Unwrap(tgTag)) = base64_encode(tgCommand)
    /\ IsSome(tgDecoded) => Unwrap(tgDecoded) = Some(tgCommand)

\* a command holding the delimiter "_END_" itself, whose encoding is padded,
\* has been encoded and decoded
C23_Witness ==
    /\ IsSome(tgDecoded)
    /\ str_find(tgCommand, END) > 0
    /\ B64Pad \in Range(base64_encode(tgCommand))

----------------------------------------------------------------------------
(* C24 *)

\* the alternatives of the text between braces
RECURSIVE SplitCommas(_)
SplitCommas(text) ==
    LET j == IndexFrom(text, 1, ",")
    IN  IF j > Len(text) THEN {text}
        ELSE {SubSeq(text, 1, j - 1)} \cup SplitCommas(SubSeq(text, j + 1, Len(text)))

\* what a glob matches: '*' and '?' match no '/', '**' matches any text,
\* '**/' matches zero or more directories, '{a,b}' matches one of its
\* alternatives, and every other character matches itself
RECURSIVE GlobMatches(_, _)
GlobMatches(g, p) ==
    LET rest(n) == SubSeq(g, n + 1, Len(g))
        from(k) == SubSeq(p, k + 1, Len(p))
    IN  CASE g = <<>> -> p = <<>>
          [] Len(g) >= 3 /\ SubSeq(g, 1, 3) = <<"*", "*", "/">> ->
               \E k \in 0..Len(p) : (k = 0 \/ p[k] = "/") /\ GlobMatches(rest(3), from(k))
          [] Len(g) >= 2 /\ SubSeq(g, 1, 2) = <<"*", "*">> ->
               \E k \in 0..Len(p) : GlobMatches(rest(2), from(k))
          [] g[1] = "*" ->
               \E k \in 0..Len(p) : "/" \notin Range(SubSeq(p, 1, k)) /\ GlobMatches(rest(1), from(k))
          [] g[1] = "?" -> p # <<>> /\ p[1] # "/" /\ GlobMatches(rest(1), from(1))
          [] g[1] = "{" ->
               LET j == IndexFrom(g, 2, "}")
               IN  \E alt \in SplitCommas(SubSeq(g, 2, j - 1)) :
                       /\ Len(alt) <= Len(p)
                       /\ SubSeq(p, 1, Len(alt)) = alt
                       /\ GlobMatches(rest(j), from(Len(alt)))
          [] OTHER -> p # <<>> /\ p[1] = g[1] /\ GlobMatches(rest(1), from(1))

\* a glob of the grammar above: no character class, every brace closed, and
\* between braces only alternatives of plain characters
RECURSIVE PlainGlob(_)
PlainGlob(g) ==
    CASE g = <<>> -> TRUE
      [] g[1] \in {"[", "]", "}"} -> FALSE
      [] g[1] = "{" ->
           LET j == IndexFrom(g, 2, "}")
           IN  /\ j <= Len(g)
               /\ Range(SubSeq(g, 2, j - 1)) \cap {"*", "?", "{", "[", "]"} = {}
               /\ PlainGlob(SubSeq(g, j + 1, Len(g)))
      [] OTHER -> PlainGlob(SubSeq(g, 2, Len(g)))

\* C24: for a glob without character classes, the regex made of it is a
\* valid regex and matches a path exactly when the glob matches the whole
\* path.
C24_RegexMatchesAsGlob ==
    (gbResult # "none" /\ PlainGlob(gbPattern)) =>
        gbResult = (IF GlobMatches(gbPattern, Unwrap(gbPath)) THEN "match" ELSE "no_match")

----------------------------------------------------------------------------
(* C25 *)

\* the position of the event of call c in the store, 0 when it is not there
StoredAt(c) ==
    IF \E i \in 1..Len(nViolations) : nViolations[i].line = LineOfCall(c)
    THEN CHOOSE i \in 1..Len(nViolations) : nViolations[i].line = LineOfCall(c)
    ELSE 0

\* the position of the event of call c in what listener l heard, 0 when
\* the listener did not hear it
HeardAt(l, c) ==
    IF \E i \in 1..Len(nHeard[l]) : nHeard[l][i].line = LineOfCall(c)
    THEN CHOOSE i \in 1..Len(nHeard[l]) : nHeard[l][i].line = LineOfCall(c)
    ELSE 0

\* C25: for any two add_violation calls whose events are in the store, a
\* listener that was notified of both was notified in the order in which
\* the two are placed in the store.
C25_NotifiedInStoreOrder ==
    \A a, b \in Calls : \A l \in 1..MaxSubscribers :
        (StoredAt(a) > 0 /\ StoredAt(b) > 0 /\ HeardAt(l, a) > 0 /\ HeardAt(l, b) > 0)
            => ((StoredAt(a) < StoredAt(b)) <=> (HeardAt(l, a) < HeardAt(l, b)))

----------------------------------------------------------------------------
(* C26 *)

\* C26: whenever a listener is called for an event the store holds that
\* event already, and when add_violation has returned every listener
\* subscribed at the call has been called exactly once with its event.
C26_AppendThenNotify ==
    /\ \A l \in 1..MaxSubscribers : \A i \in 1..Len(nHeard[l]) : nHeard[l][i].stored
    /\ \A c \in Calls : nCall[c].pc = "returned" =>
          \A l \in 1..nCall[c].registered :
              Cardinality({i \in 1..Len(nHeard[l]) : nHeard[l][i].line = LineOfCall(c)}) = 1

----------------------------------------------------------------------------
(* C27 *)

\* C27: no manager operation is suspended at an await point while it holds
\* the manager's lock.
C27_NoLockAcrossAwait ==
    \A op \in ManagerOps : lkPc[op] \in AwaitPoints => lkWriter # op

----------------------------------------------------------------------------
(* C28 *)

\* s is the beginning of t
IsPrefix(s, t) == Len(s) <= Len(t) /\ SubSeq(t, 1, Len(s)) = s

\* C28: in a CONNECT tunnel the bytes written in each direction are the
\* bytes received in that direction, in their order; and once either copy
\* has ended, by end of stream or by error, the tunnel is over: the other
\* copy is stopped and both connections are closed.
C28_TunnelOrderAndClose ==
    /\ \A d \in Directions : IsPrefix(tn.pair[d].sent, tn.pair[d].recv)
    /\ (\E d \in Directions : tn.pair[d].st # "running") => ~tn.pair.open

----------------------------------------------------------------------------
(* C29 *)

\* the SUCCESS replies sent so far
SuccessReplies == {i \in 1..Len(sk.replies) : sk.replies[i].rep = REP_SUCCESS}

\* the SUCCESS reply that carries the local address and port of the
\* outbound socket
BoundReply(local) ==
    [ver |-> SOCKS_VERSION, rep |-> REP_SUCCESS,
     atyp |-> IF local.v = 4 THEN ATYP_IPV4 ELSE ATYP_IPV6,
     addr |-> local.ip, port |-> <<local.port \div 256, local.port % 256>>]

\* C29: a SOCKS5 connection follows the protocol order.  No-auth is selected
\* only if the client offered it, else 0xFF is answered and no request is
\* handled; a SUCCESS reply is sent only after the connection to the
\* destination is open, at most once, exactly once before the relay, and it
\* carries the local address and port of the outbound socket; no payload
\* byte is forwarded before it; and once either direction has ended nothing
\* more is forwarded and both connections are closed.
C29_SocksProtocolOrder ==
    /\ sk.selection = Some(<<SOCKS_VERSION, AUTH_NONE>>) =>
          AUTH_NONE \in Unwrap(sk.greeting).methods
    /\ (/\ IsSome(sk.greeting)
        /\ Unwrap(sk.greeting).ver = SOCKS_VERSION
        /\ AUTH_NONE \notin Unwrap(sk.greeting).methods) =>
          /\ sk.selection = Some(<<SOCKS_VERSION, NO_ACCEPTABLE_METHODS>>)
          /\ sk.pc = "closed" /\ IsNone(sk.request) /\ sk.replies = <<>>
    /\ Cardinality(SuccessReplies) <= 1
    /\ \A i \in SuccessReplies :
          /\ sk.decision # Deny
          /\ IsSome(sk.upstream)
          /\ sk.replies[i] = BoundReply(Unwrap(sk.local))
    /\ sk.pc = "relay" => SuccessReplies # {}
    /\ (\E d \in Directions : sk.pair[d].sent # <<>>) => SuccessReplies # {}
    /\ \A d \in Directions : IsPrefix(sk.pair[d].sent, sk.pair[d].recv)
    /\ (\E d \in Directions : sk.pair[d].st # "running") => sk.pc = "closed"

\* a relay over a connection bound to an IPv6 address has forwarded bytes
\* in both directions and has ended with the end of one stream while the
\* other end had a byte still to forward
C29_Witness ==
    /\ sk.pc = "closed"
    /\ SuccessReplies # {}
    /\ Unwrap(sk.local).v = 6
    /\ \A d \in Directions : sk.pair[d].sent # <<>>
    /\ \E d \in Directions :
          sk.pair[d].st = "done" /\ \E e \in Directions : Len(sk.pair[e].sent) < Len(sk.pair[e].recv)

----------------------------------------------------------------------------
(* C30 *)

\* the connections the loop has accepted
Accepted == al.handlers \cup {[id |-> e.id, late |-> e.late] : e \in al.ended}

\* C30: no connection that arrives after stop() is accepted; the loop ends
\* only after stop(), whatever errors its accept calls and its handlers
\* meet; the end of the loop cancels no handler; and a second stop() changes
\* nothing.
C30_StopEndsAccepting ==
    /\ [](\A c \in Accepted : ~c.late)
    /\ [](al.loop = "exited" => al.signal)
    /\ [][al.loop # al'.loop => al'.handlers = al.handlers]_vars
    /\ [][(IsNone(al.shutdown_tx) /\ al'.stops # al.stops) =>
              al' = [al EXCEPT !.stops = al'.stops]]_vars

----------------------------------------------------------------------------
(* C31 *)

\* the runtime runs the reader task whenever it can take a step
SpecReaderLive ==
    SpecReader /\ WF_vars(NextReader /\ rd.reader # "none" /\ rd'.reader # rd.reader)

\* the policies of the lines that load, in the order of the lines
RECURSIVE LoadedOf(_)
LoadedOf(lines) ==
    IF lines = <<>> THEN <<>>
    ELSE (IF IsSome(load_config_from_string(Head(lines)))
          THEN <<Unwrap(load_config_from_string(Head(lines)))>> ELSE <<>>)
            \o LoadedOf(Tail(lines))

\* the lines read whose handling is finished
Handled == IF rd.reader = "line" THEN SubSeq(rd.seen, 1, Len(rd.seen) - 1) ELSE rd.seen

\* C31: the control fd reader applies the valid policy lines in the order
\* they are read, each one replacing the manager's config; it terminates on
\* EOF, on a read error or on the shutdown signal, the shutdown signal
\* winning when a line is ready at the same time; once the fd is closed or
\* the signal is sent it does terminate, and after it has terminated no
\* further update is applied.
C31_ReaderAppliesInOrderAndStops ==
    /\ [](rd.applied = LoadedOf(Handled))
    /\ [][rd'.applied # rd.applied => state'.config = Some(rd'.applied[Len(rd'.applied)])]_vars
    /\ [](rd.reader = "stopped" =>
            \/ rd.why = "shutdown" /\ rd.signal
            \/ rd.why = "eof" /\ rd.closed /\ rd.fd = <<>>
            \/ rd.why = "error")
    /\ [][(rd.reader = "select" /\ rd.signal /\ rd'.reader # "select") =>
            (rd'.reader = "stopped" /\ rd'.why = "shutdown" /\ rd'.fd = rd.fd)]_vars
    /\ [][rd.reader = "stopped" =>
            (rd'.reader = "stopped" /\ rd'.applied = rd.applied /\ state' = state)]_vars
    /\ ((rd.reader # "none" /\ (rd.signal \/ rd.closed)) ~> (rd.reader = "stopped"))

\* the reader applied two different policies in the order of their lines, the
\* second is the manager's config, and the shutdown signal stopped it while a
\* third line was ready to be read
C31_Witness ==
    /\ rd.reader = "stopped" /\ rd.why = "shutdown"
    /\ rd.fd # <<>> /\ Head(rd.fd).utf8
    /\ rd.applied = <<CfgMitmA, CfgDenyB>>
    /\ state.config = Some(CfgDenyB)

----------------------------------------------------------------------------
(* C32 *)

\* the command line holds, in this order: the HTTP bridge and the SOCKS
\* bridge, each put in the background, the sleep, the export statement and
\* the user command, which is run through the applier with the filter blob
\* when `applier` and directly under the shell otherwise
StepsInOrder(toks, in, applier) ==
    \E b1, b2, s, e, c \in 1..Len(toks) :
        /\ b1 < b2 /\ b2 < s /\ s < e /\ e < c
        /\ toks[b1] = tcp_to_unix_command(unwrap_or(in.http_port, DEFAULT_HTTP_PORT),
                                          Unwrap(in.http_socket))
        /\ toks[b1 + 1] = Op("&")
        /\ toks[b2] = tcp_to_unix_command(unwrap_or(in.socks_port, DEFAULT_SOCKS_PORT),
                                          Unwrap(in.socks_socket))
        /\ toks[b2 + 1] = Op("&")
        /\ toks[s] = Word("sleep 0.1")
        /\ toks[e] = Word("export")
        /\ toks[c].k = "command"
        /\ toks[c - 1] = Word("-c") /\ toks[c - 2] = Word(in.shell)
        /\ IF applier
           THEN toks[c - 4] = Word("apply-seccomp") /\ toks[c - 3] = Word("unix-block.bpf")
           ELSE toks[c - 3].k # "word"

\* C32: on Linux, with both bridge sockets of the manager, the shell accepts
\* the inner command and performs its steps in this order: both bridges in
\* the background, the sleep, the proxy exports, the user command; the user
\* command runs through the applier with the filter blob whenever both
\* syscall-filter files are available, and directly under the shell
\* otherwise.
C32_InnerStepsInOrder ==
    (weDone /\ weIn.platform = "linux" /\ IsSome(weIn.http_socket) /\ IsSome(weIn.socks_socket)) =>
        /\ ShellParses(weOut)
        /\ StepsInOrder(weOut, weIn, weIn.seccomp)

----------------------------------------------------------------------------
(* C33 *)

\* C33: the inner command built on Linux is a well-formed shell command list
\* for every input: it does not start with a separator, no separator ("&" or
\* ";") is directly followed by another one, so no command of the list is
\* empty, and the user command is in the list.
C33_InnerCommandWellFormed ==
    (weDone /\ weIn.platform = "linux") =>
        /\ weOut # <<>> /\ weOut[1].k # "op"
        /\ \A i \in 1..(Len(weOut) - 1) : ~(weOut[i].k = "op" /\ weOut[i + 1].k = "op")
        /\ \E i \in 1..Len(weOut) : weOut[i].k = "command" /\ weOut[i].a = weIn.command

----------------------------------------------------------------------------
(* C34 *)

\* C34: on macOS, when a command returned by a wrap call is executed, the
\* profile file it names holds the profile compiled for that same call (its
\* policy and its trace tag); a later or concurrent wrap call never replaces
\* it.
C34_ProfileOfOwnCall ==
    \A r \in wf.ran : r.read = Some(<<Unwrap(wf.call[r.call].profile)>>)

----------------------------------------------------------------------------
(* C35 *)

\* C35: the config, the proxy ports and the socket paths one wrap call
\* compiles into its command come from one and the same manager state, also
\* when reset or initialize runs during the call: when the call reads the
\* socket paths, either they are the paths of the state its config and ports
\* were taken from, or that config and those ports are also the ones of the
\* state it reads the paths from.
C35_WrapReadsOneState ==
    [][(wrapc.pc = "snap" /\ wrapc'.pc = "sockets") =>
          \/ /\ wrapc'.http_socket = wrapc.atLock.http_socket
             /\ wrapc'.socks_socket = wrapc.atLock.socks_socket
          \/ /\ wrapc.http_port = state.http_proxy_port
             /\ wrapc.socks_port = state.socks_proxy_port
             /\ wrapc.atLock.custom \/ Some(wrapc.config) = state.config]_vars

----------------------------------------------------------------------------
(* C36 *)

\* this step is an initialize call returning an error
InitializeReturnsErr ==
    /\ lastInit' = "err"
    /\ ini'.pc = "idle"
    /\ lastInit # "err" \/ ini.pc = "proxies"

\* the proxies the call in flight has started
StartedByCall == IF ini.pc = "proxies" THEN {ini.http, ini.socks} ELSE {}

\* C36: if initialize returns an error, for any cause (validation, missing
\* dependency, proxy bind failure, bridge spawn failure), the manager state
\* is the same as before the call and no proxy and no bridge started by that
\* call is left running.
C36_FailedInitializeChangesNothing ==
    [][InitializeReturnsErr =>
          /\ state' = state
          /\ \A i \in ProxySlots :
                proxies'[i].loop = "running" =>
                    (proxies[i].loop = "running" /\ i \notin StartedByCall)]_vars

----------------------------------------------------------------------------
(* C37 *)

\* the bridges of the manager whose socat child has not been killed or ended
AliveBridges == {i \in 1..Len(state.bridges) : state.bridges[i].alive}

\* C37: on Linux, whenever the manager is initialized and no initialize call
\* is in flight, also after initialize was called again without a reset in
\* between: exactly two bridge subprocesses are live, they are the bridges of
\* the socket paths the manager reports and forward to the ports of the
\* manager's current proxies, and no proxy of an earlier initialize is still
\* running.
C37_TwoBridgesOfCurrentProxies ==
    (platform = "linux" /\ state.initialized /\ ini.pc = "idle") =>
        /\ Cardinality(AliveBridges) = 2
        /\ {<<Some(state.bridges[i].socket_path), Some(state.bridges[i].tcp_port)>> :
                i \in AliveBridges}
             = {<<state.http_socket_path, state.http_proxy_port>>,
                <<state.socks_socket_path, state.socks_proxy_port>>}
        /\ \A i \in ProxySlots :
              proxies[i].loop = "running" => Some(i) \in {state.http_proxy, state.socks_proxy}

----------------------------------------------------------------------------
(* C38 *)

\* C38: once reset() has returned and until the next initialize call, the
\* manager stays cleared (no config, not initialized, no ports, no proxies),
\* whatever update_config calls of the control fd reader are still in flight
\* or arrive later.
C38_ClearedAfterReset ==
    (afterReset /\ ini.pc = "idle" /\ lastInit = "none") =>
        /\ IsNone(state.config)
        /\ ~state.initialized
        /\ IsNone(state.http_proxy_port) /\ IsNone(state.socks_proxy_port)
        /\ IsNone(state.http_proxy) /\ IsNone(state.socks_proxy)

----------------------------------------------------------------------------
(* C39 *)

\* the call on top of thread t's stack can take its next step
CanStep(t) ==
    \/ At(t, "add_violation", "start") /\ CanRead(rs.listeners)
    \/ At(t, "add_violation", "notifying")
    \/ (At(t, "add_violation", "notified") \/ At(t, "clear", "start")) /\ CanSetWriter(rs.violations)
    \/ (At(t, "add_violation", "violations_wait") \/ At(t, "clear", "violations_wait")) /\ CanWrite(rs.violations)
    \/ (At(t, "add_violation", "violations") \/ At(t, "clear", "violations")) /\ CanSetWriter(rs.total_count) /\ CanWrite(rs.total_count)
    \/ At(t, "add_violation", "total_count") \/ At(t, "clear", "total_count")
    \/ At(t, "subscribe", "start") /\ CanSetWriter(rs.listeners)
    \/ At(t, "subscribe", "listeners_wait") /\ CanWrite(rs.listeners)
    \/ At(t, "get_count", "start") /\ CanRead(rs.violations)
    \/ At(t, "get_count", "reading")

Running == {t \in Threads : rs.stack[t] # <<>>}

\* C39: add_violation always returns: whatever a listener calls on the same
\* store and however add_violation, clear and subscribe of several threads
\* interleave, no caller is left blocked forever on the store's locks: while
\* calls are running, one of them can take a step (the locks are held only
\* by running calls, so when none of them can step none ever will).
C39_NoCallerBlockedForever == Running # {} => \E t \in Running : CanStep(t)

\* a listener has called subscribe on the store that is notifying it, and
\* the call waits for the read guard of its own thread
C39_Witness ==
    \E t \in Threads :
        /\ Len(rs.stack[t]) = 2
        /\ rs.stack[t][1].op = "add_violation"
        /\ At(t, "subscribe", "listeners_wait")
        /\ rs.listeners.readers[t] > 0

\* the calls that do return: a listener that calls clear or get_count, and
\* calls of several threads none of which comes from a listener
C39_CallsOutsideListenersLock ==
    (\A t \in Threads : \A i \in 2..Len(rs.stack[t]) : rs.stack[t][i].op \in {"clear", "get_count"})
        => C39_NoCallerBlockedForever

----------------------------------------------------------------------------
(* C40 *)

\* C40: for every request that is not CONNECT and that the HTTP proxy
\* forwards, the host handed to the upstream TCP connect is the host that
\* was submitted to the filter, whether that host came from the request URI
\* or from the Host header.
C40_ForwardsToFilteredHost ==
    (req.kind = "http" /\ IsSome(req.target)) => req.target = Some(req.host)

\* a request whose filtered host came from the Host header has been handed
\* to forward_http and answered
C40_Witness ==
    /\ req.kind = "http"
    /\ IsSome(req.target)
    /\ IsNone(req.uri_host)
    /\ req.host # <<>>

\* what does hold: a connection that was opened leads to the filtered host,
\* and a request whose host came from the Host header opens none
C40_OpenedUpstreamIsFilteredHost ==
    (req.kind = "http" /\ IsSome(req.target) /\ IsSome(req.upstream))
        => (req.upstream = Some(req.host) /\ IsSome(req.uri_host))

=========================================================================
